---- MODULE Spec2Model ----
(***************************************************************************)
(* Model of the xpanel node agent (xpanel-agent/internal/agent): the user  *)
(* reconciliation pass (syncUsers), driven by userSyncLoop, and the        *)
(* activity tracker (trackActivity / reportActivity), against an abstract  *)
(* panel (controller) and an abstract xray-core engine.                    *)
(***************************************************************************)
EXTENDS Integers, FiniteSets, Sequences, TLC

(***************************************************************************)
(* Bounds.                                                                 *)
(***************************************************************************)
\* identities the panel may ask this node to provision
Emails == {"a", "b", "c", "d"}
\* identities whose credential (UUID) the panel may replace
Rotating == {"a"}
\* number of distinct credentials a rotating identity may receive
MaxUUID == 2

\* identities of the panel in the runs checked for liveness
LiveEmails == {"a", "b"}

\* identities of the panel in the runs checked for the activity tracker
ActEmails == {"b"}
\* largest value of an engine traffic counter
MaxBytes == 1
\* number of clock advances in a run
MaxTicks == 6

\* default of Intervals.ActivityReport, in seconds: the step of the clock
ActivityReportInterval == 30
\* reportActivity: 2*time.Minute, in seconds
OnlineThreshold == 120

UUIDsOf(e) == IF e \in Rotating THEN 1..MaxUUID ELSE {1}

(***************************************************************************)
(* Data.                                                                   *)
(***************************************************************************)
\* models.UserConfig, reduced to the fields the agent reads
UserConfig(e, u) == [Email |-> e, UUID |-> u]

\* every user list the panel can return over the identities of U
\* (users.email is UNIQUE in the panel's schema: one entry per email)
UserLists(U) ==
    UNION { { { UserConfig(e, f[e]) : e \in S } :
              f \in { g \in [S -> 1..MaxUUID] : \A e \in S : g[e] \in UUIDsOf(e) } } :
            S \in SUBSET U }

\* outcomes of Client.doRequest for the sync endpoint, and the Success flag
FetchOutcomes == {"ok", "request_failed", "panel_error", "decode_failed", "not_success"}

EmptyMap == [e \in {} |-> 0]

ZeroCalls == [e \in Emails |-> 0]

VARIABLES
    desired,            \* panel: the user list the sync endpoint returns now
    desiredChanged,     \* panel: the list is not the one the last successful fetch got
    frozen,             \* environment: the panel's list no longer changes
    reliable,           \* environment: fetches and AddUser/RemoveUser calls succeed
    currentUsers,       \* Agent.currentUsers: email -> UserConfig
    xrayUsers,          \* engine: identity table of the inbound, email -> UUID
    syncPC,             \* position of the running syncUsers call
    syncErr,            \* value returned by the last syncUsers call
    panelUsers,         \* syncUsers local: email -> UserConfig of this fetch
    addTodo,            \* syncUsers: keys of panelUsers not yet visited
    removeTodo,         \* syncUsers: keys of currentUsers not yet visited
    startUsers,         \* history: currentUsers when the pass started
    addCalls,           \* history: AddUser calls issued by this pass, per email
    removeCalls,        \* history: RemoveUser calls issued by this pass, per email
    failedAdds,         \* history: emails whose AddUser call failed in this pass
    failedRemoves,      \* history: emails whose RemoveUser call failed in this pass
    prevFailedAdds,     \* history: failedAdds of the last pass that fetched
    prevFailedRemoves,  \* history: failedRemoves of the last pass that fetched
    fetchOutcome,       \* history: outcome of this pass's FetchUserSync
    sameFetch           \* history: this pass fetched the list the previous one did

VARIABLES
    now,                \* wall clock, seconds (0 is the zero time.Time)
    xrayStats,          \* engine: cumulative traffic counters per email
    activityCache,      \* Agent.activityCache: email -> UserActivityState
    actPC,              \* position of the running reportActivity call
    activeUsers,        \* reportActivity local: result of trackActivity
    activities,         \* reportActivity local: the UserActivityReport list
    actErr,             \* value returned by the last reportActivity call
    startCache,         \* history: activityCache when the tick started
    samples,            \* history: counters GetUserStats returned in this tick
    trackUsers,         \* history: keys of currentUsers at this tick's trackActivity
    trackNow,           \* history: "now" of this tick's trackActivity
    reportNow,          \* history: clock when the report was built
    cacheAccess,        \* history: how this tick last used activityCache, and the
                        \* mode in which its goroutine held usersMutex then
    statsFailed,        \* history: emails with a failed call in this tick's GetUserStats
    ipQueries,          \* history: email -> result of this tick's GetOnlineIPs call
    absentSince,        \* history: cached email -> clock of the first activity tick,
                        \* of those since it was last provisioned, that did not find
                        \* it in currentUsers
    trafficSince        \* history, kept in the runs that set its flag "on": the emails
                        \* that transferred bytes since the previous activity tick

VARIABLES
    keyFs,              \* disk: the directory and file at Xray.RealityKeyPath
    keyFsTouched,       \* history: the file was changed since the last loadOrCreate
    realityKeys,        \* Agent.realityKeys (NoKeys is nil)
    keyLoad,            \* history: the LoadOrCreateRealityKeys call of this process
    prevKeyLoad,        \* history: the call of the previous process
    localFile,          \* disk: the xray section of config.yaml
    panelNode,          \* panel: the node record the config endpoint returns
    cfg,                \* Agent.cfg.Xray
    fetchedConfig,      \* history: result of Start's FetchNodeConfig
    startPC,            \* position of Start / lifecycle of the agent
    startErr,           \* value returned by Start
    startTrace,         \* history: the steps Start has taken, in order
    engineRunning,      \* xrayManager: the embedded engine is started
    cancelled,          \* Agent.ctx is cancelled
    hbPC,               \* position of heartbeatLoop
    hbErr,              \* value returned by the last sendHeartbeat call
    heartbeat,          \* history: the HeartbeatRequest of this sendHeartbeat call
    trPC,               \* position of trafficReportLoop
    trErr,              \* value returned by the last reportTraffic call
    trafficReport       \* history: the traffic list of this reportTraffic call

keyVars == <<keyFs, keyFsTouched, realityKeys, keyLoad, prevKeyLoad>>
cfgVars == <<localFile, panelNode, cfg, fetchedConfig>>
startVars == <<startPC, startErr, startTrace, engineRunning>>
loopVars == <<cancelled, hbPC, hbErr, heartbeat, trPC, trErr, trafficReport>>
lifeVars == <<keyVars, cfgVars, startVars, loopVars>>
actHist == <<cacheAccess, statsFailed, ipQueries, absentSince, trafficSince>>
actVars == <<now, xrayStats, activityCache, actPC, activeUsers, activities, actErr,
             startCache, samples, trackUsers, trackNow, reportNow, actHist>>
syncVars == <<currentUsers, xrayUsers, syncPC, syncErr, panelUsers, addTodo,
              removeTodo, startUsers, addCalls, removeCalls, failedAdds,
              failedRemoves, prevFailedAdds, prevFailedRemoves, fetchOutcome, sameFetch>>
envVars == <<desired, desiredChanged, frozen, reliable>>
vars == <<envVars, syncVars, actVars, lifeVars>>

(***************************************************************************)
(* Helpers.                                                                *)
(***************************************************************************)
\* a use of activityCache: op is "read" or "write" ("none": not used yet),
\* lock is the mode in which the goroutine holds usersMutex: "none", "read"
\* or "write"
CacheAccess(op, lock) == [op |-> op, lock |-> lock]

NoAccess == CacheAccess("none", "none")

\* map assignment m[k] = v
MapPut(m, k, v) == [x \in (DOMAIN m) \cup {k} |-> IF x = k THEN v ELSE m[x]]

\* delete(m, k)
MapDelete(m, k) == [x \in (DOMAIN m) \ {k} |-> m[x]]

\* FetchUserSync without the test of response.Success
FetchUserSyncNoSuccessCheck(outcome, users) ==
    IF outcome = "ok"
       THEN [err |-> FALSE, users |-> users]
       ELSE IF outcome = "not_success"
               THEN [err |-> FALSE, users |-> {}]
               ELSE [err |-> TRUE, users |-> {}]

\* Client.FetchUserSync: the user list, or an error
FetchUserSync(outcome, users) ==
    IF outcome = "ok"
       THEN [err |-> FALSE, users |-> users]
       ELSE [err |-> TRUE, users |-> {}]

\* the map built from the address of the range variable: every key ends up
\* with the same UserConfig
BuildPanelUsersLoopVar(users) ==
    [e \in { u.Email : u \in users } |-> CHOOSE u \in users : TRUE]

\* syncUsers, "Build map of panel users"
BuildPanelUsers(users) ==
    [e \in { u.Email : u \in users } |-> CHOOSE u \in users : u.Email = e]

\* models.XrayUser built for AddUser
XrayUser(user) == [Email |-> user.Email, UUID |-> user.UUID]

\* engine: effect of a successful AddUserOperation
EngineAdd(table, xu) == MapPut(table, xu.Email, xu.UUID)

\* engine: effect of a successful RemoveUserOperation
EngineRemove(table, email) == MapDelete(table, email)

\* outcomes of a handler call to the engine: none succeeds once the engine is
\* stopped
EngineOutcomes ==
    IF ~engineRunning THEN {FALSE} ELSE IF reliable THEN {TRUE} ELSE BOOLEAN

\* usersMutex is write-locked by syncUsers from its Lock() to its return
WriteLocked == syncPC \in {"add", "remove"}

\* reportTraffic returning the error of a failed report without RUnlock():
\* the read lock stays held until the loop's next tick
ReadLockedAfterFailedReport == trPC = "sending" \/ (trPC = "done" /\ trErr)

\* usersMutex is read-locked: reportTraffic holds it, by its deferred
\* RUnlock, while panelClient.ReportTraffic runs (the other read sections are
\* single steps)
ReadLocked == trPC = "sending"

\* an RLock() that returns whoever holds usersMutex
RLockIgnoresWriter == TRUE

\* RLock() returns: no writer holds usersMutex and none waits in Lock()
CanRLock == ~WriteLocked /\ syncPC # "lock"

(***************************************************************************)
(* The Reality keypair and its file (reality.go).                          *)
(***************************************************************************)
\* length of an x25519 private key, in bytes
KeyLen == 32

\* a string is a sequence of characters: 0..63 is the index of a character
\* of the URL-safe base64 alphabet, NewLine is "\n", BadChar any other byte
NewLine == 64
BadChar == 65

\* the 32-byte values rand.Read may deliver
RandomKeys == { [i \in 1..KeyLen |-> 255], [i \in 1..KeyLen |-> (i * 37) % 256] }

\* outcomes of rand.Read
RandOutcomes == [ok : BOOLEAN, bytes : RandomKeys]

\* GenerateRealityKeypair: "&= 248" on the first byte, "&= 127" and "|= 64"
\* on the last
Clamp(k) ==
    [i \in 1..Len(k) |->
        IF i = 1 THEN k[i] - (k[i] % 8)
        ELSE IF i = Len(k) THEN ((k[i] % 128) % 64) + 64
        ELSE k[i]]

\* curve25519.ScalarBaseMult: a function of the clamped scalar (the curve
\* arithmetic is not modelled, the point is named by the scalar it comes from)
ScalarBaseMult(k) == [point |-> Clamp(k)]

\* base64.RawURLEncoding.EncodeToString: three bytes give four characters,
\* no padding
RECURSIVE EncodeFrom(_, _)
EncodeFrom(b, i) ==
    IF i > Len(b)
       THEN <<>>
       ELSE LET n == Len(b) - i + 1
                b0 == b[i]
                b1 == IF n >= 2 THEN b[i + 1] ELSE 0
                b2 == IF n >= 3 THEN b[i + 2] ELSE 0
            IN  <<b0 \div 4, (b0 % 4) * 16 + (b1 \div 16)>>
                \o (IF n >= 2 THEN <<(b1 % 16) * 4 + (b2 \div 64)>> ELSE <<>>)
                \o (IF n >= 3 THEN <<b2 % 64>> ELSE <<>>)
                \o EncodeFrom(b, i + 3)

EncodeToString(b) == EncodeFrom(b, 1)

RECURSIVE DecodeFrom(_, _)
DecodeFrom(t, i) ==
    IF i > Len(t)
       THEN <<>>
       ELSE LET n == Len(t) - i + 1
                s0 == t[i]
                s1 == t[i + 1]
                s2 == IF n >= 3 THEN t[i + 2] ELSE 0
                s3 == IF n >= 4 THEN t[i + 3] ELSE 0
            IN  <<s0 * 4 + (s1 \div 16)>>
                \o (IF n >= 3 THEN <<(s1 % 16) * 16 + (s2 \div 4)>> ELSE <<>>)
                \o (IF n >= 4 THEN <<(s2 % 4) * 64 + s3>> ELSE <<>>)
                \o DecodeFrom(t, i + 4)

\* base64.RawURLEncoding.DecodeString: newlines are skipped, any other
\* character outside the alphabet and a dangling single character are errors
DecodeString(str) ==
    LET t == SelectSeq(str, LAMBDA c : c # NewLine)
    IN  IF (\E i \in 1..Len(t) : t[i] \notin 0..63) \/ Len(t) % 4 = 1
           THEN [err |-> TRUE, bytes |-> <<>>]
           ELSE [err |-> FALSE, bytes |-> DecodeFrom(t, 1)]

\* RealityKeys; NoKeys stands for the nil pointer
RealityKeys(private, public) == [PrivateKey |-> private, PublicKey |-> public]

NoKeys == RealityKeys(<<>>, [point |-> <<>>])

\* the key path on disk: MkdirAll of its directory succeeds or not; the file
\* exists or not, can be read or not, can be written (created) or not
NoDir ==
    [dirOk |-> FALSE, exists |-> FALSE, readable |-> FALSE, writable |-> FALSE,
     content |-> <<>>]

Absent(creatable) ==
    [dirOk |-> TRUE, exists |-> FALSE, readable |-> FALSE, writable |-> creatable,
     content |-> <<>>]

File(r, w, c) ==
    [dirOk |-> TRUE, exists |-> TRUE, readable |-> r, writable |-> w, content |-> c]

\* what an operator or a crash may leave in the key file: a key, a key
\* followed by a newline, a truncated key, bytes that are not base64
KeyContents ==
    LET k == CHOOSE x \in RandomKeys : x[1] = 255
    IN  { EncodeToString(Clamp(k)),
          EncodeToString(Clamp(k)) \o <<NewLine>>,
          EncodeToString(SubSeq(Clamp(k), 1, KeyLen - 1)),
          <<BadChar>> }

KeyFsStates ==
    {NoDir, Absent(TRUE), Absent(FALSE)}
        \cup { File(r, w, c) : r \in BOOLEAN, w \in BOOLEAN, c \in KeyContents }

\* os.ReadFile
ReadFile(fs) ==
    IF fs.exists /\ fs.readable
       THEN [err |-> FALSE, data |-> fs.content]
       ELSE [err |-> TRUE, data |-> <<>>]

\* os.WriteFile(path, data, 0600): an existing file is truncated and keeps
\* its mode, a new file is created readable and writable by its owner
WriteFile(fs, data) ==
    IF fs.writable
       THEN [err |-> FALSE,
             fs |-> [fs EXCEPT !.exists = TRUE,
                               !.readable = IF fs.exists THEN fs.readable ELSE TRUE,
                               !.content = data]]
       ELSE [err |-> TRUE, fs |-> fs]

\* GenerateRealityKeypair
GenerateRealityKeypair(rnd) ==
    IF ~rnd.ok
       THEN [err |-> TRUE, keys |-> NoKeys]
       ELSE LET privateKey == Clamp(rnd.bytes)
            IN  [err |-> FALSE,
                 keys |-> RealityKeys(EncodeToString(privateKey),
                                      ScalarBaseMult(privateKey))]

\* the result of LoadOrCreateRealityKeys, with the disk as the call leaves it
\* and the step that failed
KeyResult(keys, isNew, cause, fs, wrote) ==
    [keys |-> keys, isNew |-> isNew, err |-> cause # "none", cause |-> cause,
     fs |-> fs, wrote |-> wrote]

\* generateAndSaveKeys
generateAndSaveKeys(fs, rnd) ==
    LET g == GenerateRealityKeypair(rnd)
        w == WriteFile(fs, g.keys.PrivateKey)
    IN  IF g.err
           THEN KeyResult(NoKeys, TRUE, "rand", fs, FALSE)
           ELSE IF w.err
                   THEN KeyResult(NoKeys, TRUE, "write", fs, FALSE)
                   ELSE KeyResult(g.keys, TRUE, "none", w.fs, TRUE)

\* LoadOrCreateRealityKeys testing the length of the file's text in place of
\* the length of the decoded key
LoadOrCreateChecksTextLength(fs, rnd) ==
    LET f == ReadFile(fs)
        d == DecodeString(f.data)
    IN  IF ~fs.dirOk
           THEN KeyResult(NoKeys, FALSE, "mkdir", fs, FALSE)
           ELSE IF ~f.err
                   THEN IF d.err \/ Len(f.data) # KeyLen
                           THEN generateAndSaveKeys(fs, rnd)
                           ELSE KeyResult(RealityKeys(f.data, ScalarBaseMult(d.bytes)),
                                          FALSE, "none", fs, FALSE)
                   ELSE generateAndSaveKeys(fs, rnd)

\* LoadOrCreateRealityKeys returning an error for a file that does not hold
\* a key, in place of generating one
LoadOrCreateFailsOnCorrupt(fs, rnd) ==
    LET f == ReadFile(fs)
        d == DecodeString(f.data)
    IN  IF ~fs.dirOk
           THEN KeyResult(NoKeys, FALSE, "mkdir", fs, FALSE)
           ELSE IF ~f.err
                   THEN IF d.err \/ Len(d.bytes) # KeyLen
                           THEN KeyResult(NoKeys, FALSE, "decode", fs, FALSE)
                           ELSE KeyResult(RealityKeys(f.data, ScalarBaseMult(d.bytes)),
                                          FALSE, "none", fs, FALSE)
                   ELSE generateAndSaveKeys(fs, rnd)

\* LoadOrCreateRealityKeys
\* LoadOrCreateRealityKeys generating and saving a key without looking at the
\* file that is there
LoadOrCreateAlwaysGenerates(fs, rnd) ==
    IF ~fs.dirOk
       THEN KeyResult(NoKeys, FALSE, "mkdir", fs, FALSE)
       ELSE generateAndSaveKeys(fs, rnd)

LoadOrCreateRealityKeys(fs, rnd) ==
    LET f == ReadFile(fs)
        d == DecodeString(f.data)
    IN  IF ~fs.dirOk
           THEN KeyResult(NoKeys, FALSE, "mkdir", fs, FALSE)
           ELSE IF ~f.err
                   THEN IF d.err \/ Len(d.bytes) # KeyLen
                           THEN generateAndSaveKeys(fs, rnd)
                           ELSE KeyResult(RealityKeys(f.data, ScalarBaseMult(d.bytes)),
                                          FALSE, "none", fs, FALSE)
                   ELSE generateAndSaveKeys(fs, rnd)

\* history record of a LoadOrCreateRealityKeys call
KeyLoad(r, before, touched) ==
    [called |-> TRUE, keys |-> r.keys, isNew |-> r.isNew, err |-> r.err,
     cause |-> r.cause, wrote |-> r.wrote, fsBefore |-> before, fsAfter |-> r.fs,
     touched |-> touched]

NoKeyLoad ==
    [called |-> FALSE, keys |-> NoKeys, isNew |-> FALSE, err |-> FALSE,
     cause |-> "none", wrote |-> FALSE, fsBefore |-> NoDir, fsAfter |-> NoDir,
     touched |-> FALSE]

(***************************************************************************)
(* Configuration: config.yaml, the panel's node record, Agent.cfg.Xray.    *)
(***************************************************************************)
\* the xray section of a config.yaml, by its yaml keys
XrayFile(protocol, port, tls, sni, tag, apiPort) ==
    [protocol |-> protocol, listen_port |-> port, tls_enabled |-> tls, sni |-> sni,
     inbound_tag |-> tag, api_port |-> apiPort]

\* the minimal file of PANEL_CONFIG.md, and a file with the fallback values
\* PANEL_CONFIG.md and README.md document
MinimalFile == XrayFile("", 0, FALSE, "", "", 10085)

FullFile == XrayFile("vless", 443, TRUE, "vpn.example.com", "inbound-local", 10085)

LocalFiles == {MinimalFile, FullFile}

\* config.Load: of the keys above only api_port is deserialized, the other
\* fields of XrayConfig are tagged yaml:"-" and keep their zero value
LoadXrayConfig(file) ==
    [APIPort |-> file.api_port,
     Protocol |-> "", ListenPort |-> 0, TLSEnabled |-> FALSE, SNI |-> "",
     InboundTag |-> "",
     RealityEnabled |-> FALSE, RealityDest |-> "", RealityServerNames |-> "",
     RealityPrivateKey |-> NoKeys.PrivateKey, RealityPublicKey |-> NoKeys.PublicKey,
     RealityShortIds |-> ""]

\* the keypair an administrator may have stored in the panel
PanelKeys ==
    (GenerateRealityKeypair([ok |-> TRUE,
                             bytes |-> CHOOSE x \in RandomKeys : x[1] # 255])).keys

\* panel.NodeConfig: an absent JSON field is the zero value of its type
NodeConfig(protocol, port, tls, sni, tag, apiPort, reality, dest, names, ids) ==
    [Protocol |-> protocol, Port |-> port, TLSEnabled |-> tls, SNI |-> sni,
     InboundTag |-> tag, APIPort |-> apiPort,
     RealityEnabled |-> reality, RealityDest |-> dest, RealityServerNames |-> names,
     RealityPrivateKey |-> PanelKeys.PrivateKey, RealityPublicKey |-> PanelKeys.PublicKey,
     RealityShortIds |-> ids]

\* a node record with every field set, Reality off
DefaultNode ==
    NodeConfig("vmess", 8443, TRUE, "sni.panel", "panel-in", 10086, FALSE, "", "", "")

\* the node records of the panel: each field set or left empty
NodeConfigs ==
    { NodeConfig(protocol, port, tls, sni, tag, apiPort, reality, dest, names, ids) :
        protocol \in {"", "vmess"}, port \in {0, 8443}, tls \in BOOLEAN,
        sni \in {"", "sni.panel"}, tag \in {"", "panel-in"}, apiPort \in {0, 10086},
        reality \in BOOLEAN, dest \in {"", "example.com:443"},
        names \in {"", "example.com"}, ids \in {"", "0123abcd"} }
      \ { n \in [Protocol : {"", "vmess"}, Port : {0, 8443}, TLSEnabled : BOOLEAN,
                  SNI : {"", "sni.panel"}, InboundTag : {"", "panel-in"},
                  APIPort : {0, 10086}, RealityEnabled : {FALSE},
                  RealityDest : {"", "example.com:443"},
                  RealityServerNames : {"", "example.com"},
                  RealityPrivateKey : {PanelKeys.PrivateKey},
                  RealityPublicKey : {PanelKeys.PublicKey},
                  RealityShortIds : {"", "0123abcd"}] :
              n.RealityDest # "" \/ n.RealityServerNames # "" \/ n.RealityShortIds # "" }

\* result of Start's FetchNodeConfig; NoFetch before the call
NoFetch == [called |-> FALSE, ok |-> FALSE, node |-> DefaultNode]

\* Client.FetchNodeConfig: the node record, or an error
FetchNodeConfig(outcome, node) ==
    [called |-> TRUE, ok |-> outcome = "ok", node |-> node]

\* the three required Reality fields
RealityFieldMissing(node) ==
    node.RealityDest = "" \/ node.RealityServerNames = "" \/ node.RealityShortIds = ""

\* Start taking the Reality keypair of the panel whether or not a local one
\* was loaded
ApplyRealityPanelKeys(c, node, keys) ==
    IF node.RealityEnabled
       THEN [c EXCEPT !.RealityEnabled = TRUE,
                      !.RealityDest = node.RealityDest,
                      !.RealityServerNames = node.RealityServerNames,
                      !.RealityPrivateKey = node.RealityPrivateKey,
                      !.RealityPublicKey = node.RealityPublicKey,
                      !.RealityShortIds = node.RealityShortIds]
       ELSE [c EXCEPT !.RealityEnabled = FALSE]

\* Start, "Apply Reality settings if enabled", once the fields are validated
ApplyReality(c, node, keys) ==
    IF node.RealityEnabled
       THEN [c EXCEPT !.RealityEnabled = TRUE,
                      !.RealityDest = node.RealityDest,
                      !.RealityServerNames = node.RealityServerNames,
                      !.RealityPrivateKey = IF keys # NoKeys THEN keys.PrivateKey
                                                            ELSE node.RealityPrivateKey,
                      !.RealityPublicKey = IF keys # NoKeys THEN keys.PublicKey
                                                           ELSE node.RealityPublicKey,
                      !.RealityShortIds = node.RealityShortIds]
       ELSE [c EXCEPT !.RealityEnabled = FALSE]

\* Start, the panel fields copied into cfg.Xray
CopyPanelFields(c, node) ==
    [c EXCEPT !.Protocol = node.Protocol,
              !.ListenPort = node.Port,
              !.TLSEnabled = node.TLSEnabled,
              !.SNI = node.SNI,
              !.InboundTag = IF node.InboundTag = "" THEN "proxy" ELSE node.InboundTag]

\* Start without the test of RealityShortIds
ResolveConfigNoShortIdsCheck(c, fetched, keys) ==
    IF ~fetched.ok
       THEN [err |-> FALSE,
             cfg |-> [c EXCEPT !.InboundTag = IF @ = "" THEN "inbound-vless" ELSE @]]
       ELSE LET node == fetched.node
                copied == CopyPanelFields(c, node)
            IN  IF node.RealityEnabled
                   /\ (node.RealityDest = "" \/ node.RealityServerNames = "")
                   THEN [err |-> TRUE, cfg |-> copied]
                   ELSE [err |-> FALSE,
                         cfg |-> [ApplyReality(copied, node, keys) EXCEPT
                                     !.APIPort = IF node.APIPort > 0 THEN node.APIPort
                                                                     ELSE @]]

\* Start, from FetchNodeConfig to "Update API settings if provided": the
\* cfg.Xray it leaves, and whether Start returns an error here
ResolveConfig(c, fetched, keys) ==
    IF ~fetched.ok
       THEN [err |-> FALSE,
             cfg |-> [c EXCEPT !.InboundTag = IF @ = "" THEN "inbound-vless" ELSE @]]
       ELSE LET node == fetched.node
                copied == CopyPanelFields(c, node)
            IN  IF node.RealityEnabled /\ RealityFieldMissing(node)
                   THEN [err |-> TRUE, cfg |-> copied]
                   ELSE [err |-> FALSE,
                         cfg |-> [ApplyReality(copied, node, keys) EXCEPT
                                     !.APIPort = IF node.APIPort > 0 THEN node.APIPort
                                                                     ELSE @]]

\* the steps of Start, in the order of the code
StartOrder == <<"keys", "config", "engine", "sync", "loops">>

\* Start has launched the four loops and the process lives: main returns, and
\* the goroutines end with it, as soon as Stop has returned
Launched == startPC \in {"running", "stopping"}

\* a ticker's tick can be taken: xrayManager.Stop() has not returned (after
\* it, Stop and main only log and return, and no tick falls in that time)
Ticking == Launched /\ engineRunning

\* no handler is at its return: a handler that has returned goes back to the
\* select of its loop at once (that step is local to the loop), so no step of
\* another goroutine or of the environment is placed before it
NoneReturned == syncPC # "done" /\ actPC # "done" /\ hbPC # "done" /\ trPC # "done"

\* and reportActivity is not between its trackActivity call and its report:
\* what it does there reads the cache, the clock and the engine only, so the
\* steps of the other goroutines are placed after it
\* and syncUsers is not at a Lock() that can return (a waiting writer keeps
\* new readers out, so nothing but the writer moves usersMutex from there)
Quiet == NoneReturned /\ actPC # "tracked" /\ ~(syncPC = "lock" /\ ~ReadLocked)

\* models.HeartbeatRequest, without the host metrics and the timestamp
\* a heartbeat that also carries the private half of the keypair
HeartbeatRequestWithPrivateKey(userCount, keys) ==
    [Status |-> "online", CurrentUsers |-> userCount,
     RealityPublicKey |-> keys.PublicKey, RealityPrivateKey |-> keys.PrivateKey]

HeartbeatRequest(userCount, keys) ==
    [Status |-> "online", CurrentUsers |-> userCount,
     RealityPublicKey |-> keys.PublicKey]

NoHeartbeat == [Status |-> "", CurrentUsers |-> 0, RealityPublicKey |-> NoKeys.PublicKey]

(***************************************************************************)
(* Initial state: NewAgent, and an engine started with no clients.         *)
(***************************************************************************)
NewAgent(U, rel) ==
    /\ desired \in UserLists(U)
    /\ desiredChanged = TRUE
    /\ frozen = FALSE
    /\ reliable = rel
    /\ currentUsers = EmptyMap
    /\ xrayUsers = EmptyMap
    /\ syncPC = "idle"
    /\ syncErr = FALSE
    /\ panelUsers = EmptyMap
    /\ addTodo = {}
    /\ removeTodo = {}
    /\ startUsers = EmptyMap
    /\ addCalls = ZeroCalls
    /\ removeCalls = ZeroCalls
    /\ failedAdds = {}
    /\ failedRemoves = {}
    /\ prevFailedAdds = {}
    /\ prevFailedRemoves = {}
    /\ fetchOutcome = "none"
    /\ sameFetch = FALSE
    /\ now = ActivityReportInterval
    /\ xrayStats = [e \in Emails |-> [up |-> 0, down |-> 0]]
    /\ activityCache = EmptyMap
    /\ actPC = "idle"
    /\ activeUsers = {}
    /\ activities = {}
    /\ actErr = FALSE
    /\ startCache = EmptyMap
    /\ samples = EmptyMap
    /\ trackUsers = {}
    /\ trackNow = 0
    /\ cacheAccess = NoAccess
    /\ statsFailed = {}
    /\ absentSince = EmptyMap
    /\ ipQueries = EmptyMap
    /\ reportNow = 0

\* the empty history of traffic, kept or not
TrafficTrace(on) == [on |-> on, emails |-> {}]

\* the process has loaded config.yaml and built the Agent; Start is not called
Created(files, nodes, disks) ==
    /\ localFile \in files
    /\ panelNode \in nodes
    /\ keyFs \in disks
    /\ cfg = LoadXrayConfig(localFile)
    /\ keyFsTouched = FALSE
    /\ realityKeys = NoKeys
    /\ keyLoad = NoKeyLoad
    /\ prevKeyLoad = NoKeyLoad
    /\ fetchedConfig = NoFetch
    /\ startPC = "created"
    /\ startErr = FALSE
    /\ startTrace = <<>>
    /\ engineRunning = FALSE
    /\ cancelled = FALSE
    /\ hbPC = "none"
    /\ hbErr = FALSE
    /\ heartbeat = NoHeartbeat
    /\ trPC = "none"
    /\ trErr = FALSE
    /\ trafficReport = {}
    /\ trafficSince = TrafficTrace(FALSE)

\* the state Start leaves behind when it found no key file, fetched
\* DefaultNode, started the engine, and its initial syncUsers provisioned
\* nobody; traced tells whether the run keeps the history trafficSince
RunningWith(traced) ==
    LET r == LoadOrCreateRealityKeys(Absent(TRUE),
                 [ok |-> TRUE, bytes |-> CHOOSE x \in RandomKeys : x[1] = 255])
        fetched == FetchNodeConfig("ok", DefaultNode)
    IN  /\ localFile = MinimalFile
        /\ panelNode = DefaultNode
        /\ keyFs = r.fs
        /\ cfg = ResolveConfig(LoadXrayConfig(MinimalFile), fetched, r.keys).cfg
        /\ keyFsTouched = FALSE
        /\ realityKeys = r.keys
        /\ keyLoad = KeyLoad(r, Absent(TRUE), FALSE)
        /\ prevKeyLoad = NoKeyLoad
        /\ fetchedConfig = fetched
        /\ startPC = "running"
        /\ startErr = FALSE
        /\ startTrace = StartOrder
        /\ engineRunning = TRUE
        /\ cancelled = FALSE
        /\ hbPC = "idle"
        /\ hbErr = FALSE
        /\ heartbeat = NoHeartbeat
        /\ trPC = "idle"
        /\ trErr = FALSE
        /\ trafficReport = {}
        /\ trafficSince = TrafficTrace(traced)

Running == RunningWith(FALSE)

InitOver(U, rel) == NewAgent(U, rel) /\ Running

Init == InitOver(Emails, FALSE)

(***************************************************************************)
(* Environment.                                                            *)
(***************************************************************************)
\* the panel's user list for this node changes (subscriptions, quota, status)
ControllerUpdate(U) ==
    /\ Quiet
    /\ ~frozen
    /\ syncPC = "idle"
    /\ ~desiredChanged
    /\ \E users \in UserLists(U) :
          /\ users # desired
          /\ desired' = users
    /\ desiredChanged' = TRUE
    /\ UNCHANGED <<frozen, reliable, syncVars, actVars, lifeVars>>

\* from now on the panel list stays as it is and no call fails
Stabilize ==
    /\ ~(frozen /\ reliable)
    /\ frozen' = TRUE
    /\ reliable' = TRUE
    /\ UNCHANGED <<desired, desiredChanged, syncVars, actVars, lifeVars>>

(***************************************************************************)
(* syncUsers.                                                              *)
(***************************************************************************)
\* FetchUserSync, then either "return err" or the map of panel users is
\* built and the write lock taken
SyncFetch ==
    /\ Quiet
    /\ startPC = "sync" \/ Ticking
    /\ syncPC = "idle"
    /\ \E outcome \in (IF reliable THEN {"ok"} ELSE FetchOutcomes) :
          LET r == FetchUserSync(outcome, desired) IN
             /\ fetchOutcome' = outcome
             /\ IF r.err
                   THEN /\ syncPC' = "done"
                        /\ syncErr' = TRUE
                        /\ sameFetch' = FALSE
                        /\ UNCHANGED <<panelUsers, addTodo, desiredChanged>>
                   ELSE /\ syncPC' = "lock"
                        /\ panelUsers' = BuildPanelUsers(r.users)
                        /\ addTodo' = DOMAIN BuildPanelUsers(r.users)
                        /\ sameFetch' = ~desiredChanged
                        /\ desiredChanged' = FALSE
                        /\ UNCHANGED syncErr
    /\ startUsers' = currentUsers
    /\ UNCHANGED <<lifeVars, actVars, desired, frozen, reliable, currentUsers, xrayUsers, removeTodo, addCalls,
                   removeCalls, failedAdds, failedRemoves, prevFailedAdds,
                   prevFailedRemoves>>

\* syncUsers: usersMutex.Lock() returns once no reader holds the mutex
SyncLock ==
    /\ NoneReturned
    /\ syncPC = "lock"
    /\ ~ReadLocked
    /\ syncPC' = "add"
    /\ UNCHANGED <<lifeVars, actVars, envVars, currentUsers, xrayUsers, syncErr, panelUsers,
                   addTodo, removeTodo, startUsers, addCalls, removeCalls, failedAdds,
                   failedRemoves, prevFailedAdds, prevFailedRemoves, fetchOutcome,
                   sameFetch>>

\* SyncAddUser without the "!exists" test: AddUser is called for every email
\* of the fetched list
SyncAddUserAlways(email) ==
    /\ Quiet
    /\ syncPC = "add"
    /\ email \in addTodo
    /\ addTodo' = addTodo \ {email}
    /\ addCalls' = [addCalls EXCEPT ![email] = @ + 1]
    /\ \E ok \in EngineOutcomes :
          IF ok
             THEN /\ xrayUsers' = EngineAdd(xrayUsers, XrayUser(panelUsers[email]))
                  /\ currentUsers' = MapPut(currentUsers, email, panelUsers[email])
                  /\ UNCHANGED failedAdds
             ELSE /\ failedAdds' = failedAdds \cup {email}
                  /\ UNCHANGED <<xrayUsers, currentUsers>>
    /\ UNCHANGED <<lifeVars, envVars, actVars, syncPC, syncErr, panelUsers, removeTodo, startUsers,
                   removeCalls, failedRemoves, prevFailedAdds, prevFailedRemoves,
                   fetchOutcome, sameFetch>>

\* SyncAddUser without the "continue" after a failed AddUser: the email is
\* inserted into currentUsers whatever the engine answered
SyncAddUserInsertOnFailure(email) ==
    /\ Quiet
    /\ syncPC = "add"
    /\ email \in addTodo
    /\ addTodo' = addTodo \ {email}
    /\ IF email \notin DOMAIN currentUsers
          THEN /\ addCalls' = [addCalls EXCEPT ![email] = @ + 1]
               /\ currentUsers' = MapPut(currentUsers, email, panelUsers[email])
               /\ \E ok \in EngineOutcomes :
                     IF ok
                        THEN /\ xrayUsers' = EngineAdd(xrayUsers, XrayUser(panelUsers[email]))
                             /\ UNCHANGED failedAdds
                        ELSE /\ failedAdds' = failedAdds \cup {email}
                             /\ UNCHANGED xrayUsers
          ELSE UNCHANGED <<addCalls, xrayUsers, currentUsers, failedAdds>>
    /\ UNCHANGED <<lifeVars, envVars, actVars, syncPC, syncErr, panelUsers, removeTodo, startUsers,
                   removeCalls, failedRemoves, prevFailedAdds, prevFailedRemoves,
                   fetchOutcome, sameFetch>>

\* "Add new users": one iteration of the range over panelUsers
SyncAddUser(email) ==
    /\ Quiet
    /\ syncPC = "add"
    /\ email \in addTodo
    /\ addTodo' = addTodo \ {email}
    /\ IF email \notin DOMAIN currentUsers
          THEN /\ addCalls' = [addCalls EXCEPT ![email] = @ + 1]
               /\ \E ok \in EngineOutcomes :
                     IF ok
                        THEN /\ xrayUsers' = EngineAdd(xrayUsers, XrayUser(panelUsers[email]))
                             /\ currentUsers' = MapPut(currentUsers, email, panelUsers[email])
                             /\ UNCHANGED failedAdds
                        ELSE /\ failedAdds' = failedAdds \cup {email}
                             /\ UNCHANGED <<xrayUsers, currentUsers>>
          ELSE UNCHANGED <<addCalls, xrayUsers, currentUsers, failedAdds>>
    /\ UNCHANGED <<lifeVars, envVars, actVars, syncPC, syncErr, panelUsers, removeTodo, startUsers,
                   removeCalls, failedRemoves, prevFailedAdds, prevFailedRemoves,
                   fetchOutcome, sameFetch>>

\* the first range is exhausted: start the range over currentUsers
SyncBeginRemove ==
    /\ Quiet
    /\ syncPC = "add"
    /\ addTodo = {}
    /\ syncPC' = "remove"
    /\ removeTodo' = DOMAIN currentUsers
    /\ UNCHANGED <<lifeVars, envVars, actVars, currentUsers, xrayUsers, syncErr, panelUsers, addTodo,
                   startUsers, addCalls, removeCalls, failedAdds, failedRemoves,
                   prevFailedAdds, prevFailedRemoves, fetchOutcome, sameFetch>>

\* SyncRemoveUser with the "exists" test inverted: RemoveUser is called for
\* the emails the fetched list still has
SyncRemoveUserInverted(email) ==
    /\ Quiet
    /\ syncPC = "remove"
    /\ email \in removeTodo
    /\ removeTodo' = removeTodo \ {email}
    /\ IF email \in DOMAIN panelUsers
          THEN /\ removeCalls' = [removeCalls EXCEPT ![email] = @ + 1]
               /\ \E ok \in EngineOutcomes :
                     IF ok
                        THEN /\ xrayUsers' = EngineRemove(xrayUsers, email)
                             /\ currentUsers' = MapDelete(currentUsers, email)
                             /\ UNCHANGED failedRemoves
                        ELSE /\ failedRemoves' = failedRemoves \cup {email}
                             /\ UNCHANGED <<xrayUsers, currentUsers>>
          ELSE UNCHANGED <<removeCalls, xrayUsers, currentUsers, failedRemoves>>
    /\ UNCHANGED <<lifeVars, envVars, actVars, syncPC, syncErr, panelUsers, addTodo, startUsers,
                   addCalls, failedAdds, prevFailedAdds, prevFailedRemoves,
                   fetchOutcome, sameFetch>>

\* SyncRemoveUser without the delete from currentUsers after a successful
\* RemoveUser
SyncRemoveUserNoDelete(email) ==
    /\ Quiet
    /\ syncPC = "remove"
    /\ email \in removeTodo
    /\ removeTodo' = removeTodo \ {email}
    /\ IF email \notin DOMAIN panelUsers
          THEN /\ removeCalls' = [removeCalls EXCEPT ![email] = @ + 1]
               /\ \E ok \in EngineOutcomes :
                     IF ok
                        THEN /\ xrayUsers' = EngineRemove(xrayUsers, email)
                             /\ UNCHANGED <<currentUsers, failedRemoves>>
                        ELSE /\ failedRemoves' = failedRemoves \cup {email}
                             /\ UNCHANGED <<xrayUsers, currentUsers>>
          ELSE UNCHANGED <<removeCalls, xrayUsers, currentUsers, failedRemoves>>
    /\ UNCHANGED <<lifeVars, envVars, actVars, syncPC, syncErr, panelUsers, addTodo, startUsers,
                   addCalls, failedAdds, prevFailedAdds, prevFailedRemoves,
                   fetchOutcome, sameFetch>>

\* SyncRemoveUser with "return err" in place of "continue" after a failed
\* RemoveUser
SyncRemoveUserReturnsOnFailure(email) ==
    /\ Quiet
    /\ syncPC = "remove"
    /\ email \in removeTodo
    /\ IF email \notin DOMAIN panelUsers
          THEN /\ removeCalls' = [removeCalls EXCEPT ![email] = @ + 1]
               /\ \E ok \in EngineOutcomes :
                     IF ok
                        THEN /\ xrayUsers' = EngineRemove(xrayUsers, email)
                             /\ currentUsers' = MapDelete(currentUsers, email)
                             /\ removeTodo' = removeTodo \ {email}
                             /\ UNCHANGED <<failedRemoves, syncPC, syncErr>>
                        ELSE /\ failedRemoves' = failedRemoves \cup {email}
                             /\ removeTodo' = {}
                             /\ syncPC' = "done"
                             /\ syncErr' = TRUE
                             /\ UNCHANGED <<xrayUsers, currentUsers>>
          ELSE /\ removeTodo' = removeTodo \ {email}
               /\ UNCHANGED <<removeCalls, xrayUsers, currentUsers, failedRemoves,
                              syncPC, syncErr>>
    /\ UNCHANGED <<lifeVars, envVars, actVars, panelUsers, addTodo, startUsers,
                   addCalls, failedAdds, prevFailedAdds, prevFailedRemoves,
                   fetchOutcome, sameFetch>>

\* "Remove users that are no longer active": one iteration of the range
SyncRemoveUser(email) ==
    /\ Quiet
    /\ syncPC = "remove"
    /\ email \in removeTodo
    /\ removeTodo' = removeTodo \ {email}
    /\ IF email \notin DOMAIN panelUsers
          THEN /\ removeCalls' = [removeCalls EXCEPT ![email] = @ + 1]
               /\ \E ok \in EngineOutcomes :
                     IF ok
                        THEN /\ xrayUsers' = EngineRemove(xrayUsers, email)
                             /\ currentUsers' = MapDelete(currentUsers, email)
                             /\ UNCHANGED failedRemoves
                        ELSE /\ failedRemoves' = failedRemoves \cup {email}
                             /\ UNCHANGED <<xrayUsers, currentUsers>>
          ELSE UNCHANGED <<removeCalls, xrayUsers, currentUsers, failedRemoves>>
    /\ UNCHANGED <<lifeVars, envVars, actVars, syncPC, syncErr, panelUsers, addTodo, startUsers,
                   addCalls, failedAdds, prevFailedAdds, prevFailedRemoves,
                   fetchOutcome, sameFetch>>

\* both ranges are exhausted: release the lock, return nil
SyncReturn ==
    /\ Quiet
    /\ syncPC = "remove"
    /\ removeTodo = {}
    /\ syncPC' = "done"
    /\ syncErr' = FALSE
    /\ UNCHANGED <<lifeVars, envVars, actVars, currentUsers, xrayUsers, panelUsers, addTodo, removeTodo,
                   startUsers, addCalls, removeCalls, failedAdds, failedRemoves,
                   prevFailedAdds, prevFailedRemoves, fetchOutcome, sameFetch>>

\* userSyncLoop returning when syncUsers returned an error, in place of
\* logging it
UserSyncLoopExitsOnError ==
    /\ Launched
    /\ syncPC = "done"
    /\ syncPC' = IF syncErr THEN "exited" ELSE "idle"
    /\ prevFailedAdds' = IF syncErr THEN prevFailedAdds ELSE failedAdds
    /\ prevFailedRemoves' = IF syncErr THEN prevFailedRemoves ELSE failedRemoves
    /\ panelUsers' = EmptyMap
    /\ startUsers' = EmptyMap
    /\ addCalls' = ZeroCalls
    /\ removeCalls' = ZeroCalls
    /\ failedAdds' = {}
    /\ failedRemoves' = {}
    /\ fetchOutcome' = "none"
    /\ sameFetch' = FALSE
    /\ syncErr' = FALSE
    /\ UNCHANGED <<lifeVars, envVars, actVars, currentUsers, xrayUsers, addTodo, removeTodo>>

\* userSyncLoop: the error, if any, is logged and the loop waits for the
\* next tick
UserSyncLoopNext ==
    /\ Launched
    /\ syncPC = "done"
    /\ syncPC' = "idle"
    /\ prevFailedAdds' = IF syncErr THEN prevFailedAdds ELSE failedAdds
    /\ prevFailedRemoves' = IF syncErr THEN prevFailedRemoves ELSE failedRemoves
    /\ panelUsers' = EmptyMap
    /\ startUsers' = EmptyMap
    /\ addCalls' = ZeroCalls
    /\ removeCalls' = ZeroCalls
    /\ failedAdds' = {}
    /\ failedRemoves' = {}
    /\ fetchOutcome' = "none"
    /\ sameFetch' = FALSE
    /\ syncErr' = FALSE
    /\ UNCHANGED <<lifeVars, envVars, actVars, currentUsers, xrayUsers, addTodo, removeTodo>>

SyncStep ==
    \/ SyncFetch
    \/ SyncLock
    \/ \E email \in Emails : SyncAddUser(email)
    \/ SyncBeginRemove
    \/ \E email \in Emails : SyncRemoveUser(email)
    \/ SyncReturn
    \/ UserSyncLoopNext

(***************************************************************************)
(* Engine traffic and the clock.                                           *)
(***************************************************************************)
\* a provisioned identity moves traffic: one of its counters grows
\* (a returned handler goes back to its ticker at once: no step of the
\* environment is placed between the return and the wait)
Traffic(email) ==
    /\ engineRunning
    /\ Quiet
    /\ email \in DOMAIN xrayUsers
    /\ \E dir \in {"up", "down"} :
          /\ xrayStats[email][dir] < MaxBytes
          /\ xrayStats' = [xrayStats EXCEPT ![email][dir] = @ + 1]
    /\ trafficSince' = IF trafficSince.on
                           THEN [trafficSince EXCEPT !.emails = @ \cup {email}]
                           ELSE trafficSince
    /\ UNCHANGED <<lifeVars, envVars, syncVars, now, activityCache, cacheAccess, statsFailed,
                   ipQueries, absentSince, actPC, activeUsers,
                   activities, actErr, startCache, samples, trackUsers, trackNow,
                   reportNow>>

\* time passes
Tick ==
    /\ NoneReturned
    /\ now < MaxTicks * ActivityReportInterval
    /\ now' = now + ActivityReportInterval
    /\ UNCHANGED <<lifeVars, envVars, syncVars, xrayStats, activityCache, actHist, actPC, activeUsers,
                   activities, actErr, startCache, samples, trackUsers, trackNow,
                   reportNow>>

(***************************************************************************)
(* trackActivity and reportActivity.                                       *)
(***************************************************************************)
\* outcomes of the calls GetUserStats makes: Connect, and the two QueryStats
StatsOutcomes == [conn : BOOLEAN, upOk : BOOLEAN, downOk : BOOLEAN]

\* no QueryStats succeeds once the engine is stopped
StatsOutcomesNow ==
    IF engineRunning THEN StatsOutcomes
                     ELSE { o \in StatsOutcomes : ~o.upOk /\ ~o.downOk }

\* the cached emails the range over currentUsers does not reach, each with
\* the clock of the first tick that did not reach it
AbsentSince(prev, cached, users, t) ==
    [e \in cached \ users |-> IF e \in DOMAIN prev THEN prev[e] ELSE t]

\* Connect failed, or a QueryStats that was called failed
StatsCallFailed(outcome) == ~outcome.conn \/ ~outcome.upOk \/ ~outcome.downOk

\* APIClient.GetUserStats: an error only when Connect fails; a failed
\* QueryStats leaves the field of the result at zero
GetUserStats(outcome, counters) ==
    IF ~outcome.conn
       THEN [err |-> TRUE, UploadBytes |-> 0, DownloadBytes |-> 0]
       ELSE [err |-> FALSE,
             UploadBytes |-> IF outcome.upOk THEN counters.up ELSE 0,
             DownloadBytes |-> IF outcome.downOk THEN counters.down ELSE 0]

\* trackActivity with "&&" in place of "||" in the test of the deltas
TrackUserBothDeltas(cache, email, stats, t) ==
    LET state == IF email \in DOMAIN cache
                    THEN cache[email]
                    ELSE [Email |-> email, LastSeen |-> 0,
                          LastUplink |-> stats.UploadBytes,
                          LastDownlink |-> stats.DownloadBytes,
                          IsActive |-> FALSE]
        uplinkDelta == stats.UploadBytes - state.LastUplink
        downlinkDelta == stats.DownloadBytes - state.LastDownlink
        active == uplinkDelta > 0 /\ downlinkDelta > 0
    IN  [Email |-> state.Email,
         LastSeen |-> IF active THEN t ELSE state.LastSeen,
         LastUplink |-> stats.UploadBytes,
         LastDownlink |-> stats.DownloadBytes,
         IsActive |-> active]

\* trackActivity creating the state of a new email with a zero baseline in
\* place of the sampled counters
TrackUserZeroBaseline(cache, email, stats, t) ==
    LET state == IF email \in DOMAIN cache
                    THEN cache[email]
                    ELSE [Email |-> email, LastSeen |-> 0,
                          LastUplink |-> 0,
                          LastDownlink |-> 0,
                          IsActive |-> FALSE]
        uplinkDelta == stats.UploadBytes - state.LastUplink
        downlinkDelta == stats.DownloadBytes - state.LastDownlink
        active == uplinkDelta > 0 \/ downlinkDelta > 0
    IN  [Email |-> state.Email,
         LastSeen |-> IF active THEN t ELSE state.LastSeen,
         LastUplink |-> stats.UploadBytes,
         LastDownlink |-> stats.DownloadBytes,
         IsActive |-> active]

\* trackActivity updating the baseline only when the delta is positive
TrackUserKeepsHigherBaseline(cache, email, stats, t) ==
    LET state == IF email \in DOMAIN cache
                    THEN cache[email]
                    ELSE [Email |-> email, LastSeen |-> 0,
                          LastUplink |-> stats.UploadBytes,
                          LastDownlink |-> stats.DownloadBytes,
                          IsActive |-> FALSE]
        uplinkDelta == stats.UploadBytes - state.LastUplink
        downlinkDelta == stats.DownloadBytes - state.LastDownlink
        active == uplinkDelta > 0 \/ downlinkDelta > 0
    IN  [Email |-> state.Email,
         LastSeen |-> IF active THEN t ELSE state.LastSeen,
         LastUplink |-> IF uplinkDelta > 0 THEN stats.UploadBytes ELSE state.LastUplink,
         LastDownlink |-> IF downlinkDelta > 0 THEN stats.DownloadBytes
                                              ELSE state.LastDownlink,
         IsActive |-> active]

\* trackActivity, body of the range for one email whose GetUserStats
\* succeeded: the UserActivityState the cache holds for it afterwards
TrackUser(cache, email, stats, t) ==
    LET state == IF email \in DOMAIN cache
                    THEN cache[email]
                    ELSE [Email |-> email, LastSeen |-> 0,
                          LastUplink |-> stats.UploadBytes,
                          LastDownlink |-> stats.DownloadBytes,
                          IsActive |-> FALSE]
        uplinkDelta == stats.UploadBytes - state.LastUplink
        downlinkDelta == stats.DownloadBytes - state.LastDownlink
        active == uplinkDelta > 0 \/ downlinkDelta > 0
    IN  [Email |-> state.Email,
         LastSeen |-> IF active THEN t ELSE state.LastSeen,
         LastUplink |-> stats.UploadBytes,
         LastDownlink |-> stats.DownloadBytes,
         IsActive |-> active]

\* reportActivity with "<=" in place of "<" in the test against two minutes
IsOnlineInclusive(state, t) ==
    state.IsActive \/ t - state.LastSeen <= OnlineThreshold

\* reportActivity: UserActivityReport.IsOnline
IsOnline(state, t) ==
    state.IsActive \/ t - state.LastSeen < OnlineThreshold

\* reportActivity: the report entry of one cached state
\* results of APIClient.GetOnlineIPs: an error, or the map of peer addresses
OnlineIPs == {{}, {"10.0.0.1"}}

IPResults == [err : {TRUE}, ips : {{}}] \cup [err : {FALSE}, ips : OnlineIPs]

\* no call of the engine's API succeeds once the engine is stopped
IPResultsNow == IF engineRunning THEN IPResults ELSE { r \in IPResults : r.err }

\* the entry reportActivity builds for one cached state; ipResult is the
\* result of GetOnlineIPs, used only for an identity that is online
UserActivityReport(state, t, ipResult) ==
    LET online == IsOnline(state, t)
        ips == IF online /\ ~ipResult.err THEN ipResult.ips ELSE {}
    IN  [Email |-> state.Email, LastSeen |-> state.LastSeen, IsOnline |-> online,
         DeviceCount |-> Cardinality(ips), DeviceIPs |-> ips]

\* trackActivity, under the read lock of usersMutex
TrackActivity ==
    /\ Quiet
    /\ Ticking
    /\ actPC = "idle"
    /\ CanRLock
    /\ actPC' = "tracked"
    /\ startCache' = activityCache
    /\ trackUsers' = DOMAIN currentUsers
    /\ trackNow' = now
    /\ absentSince' = AbsentSince(absentSince, DOMAIN activityCache, DOMAIN currentUsers, now)
    /\ IF DOMAIN currentUsers = {}
          THEN /\ samples' = EmptyMap
               /\ activeUsers' = {}
               /\ cacheAccess' = NoAccess
               /\ statsFailed' = {}
               /\ UNCHANGED activityCache
          ELSE \E outcome \in [DOMAIN currentUsers -> StatsOutcomesNow] :
                  LET stats == [e \in DOMAIN currentUsers |->
                                   GetUserStats(outcome[e], xrayStats[e])]
                      sampled == { e \in DOMAIN currentUsers : ~stats[e].err }
                      cache == [e \in (DOMAIN activityCache) \cup sampled |->
                                   IF e \in sampled
                                      THEN TrackUser(activityCache, e, stats[e], now)
                                      ELSE activityCache[e]]
                  IN  /\ samples' = [e \in sampled |->
                                        [up |-> stats[e].UploadBytes,
                                         down |-> stats[e].DownloadBytes]]
                      /\ activityCache' = cache
                      /\ activeUsers' = { e \in sampled : cache[e].IsActive }
                      /\ cacheAccess' = IF sampled = {} THEN NoAccess
                                                        ELSE CacheAccess("write", "read")
                      /\ statsFailed' = { e \in DOMAIN currentUsers :
                                            StatsCallFailed(outcome[e]) }
    /\ UNCHANGED <<lifeVars, envVars, syncVars, now, xrayStats, activities, actErr, reportNow,
                   ipQueries, trafficSince>>

\* reportActivity calling GetOnlineIPs for every identity it reports, online
\* or not
ReportActivityQueriesAll ==
    /\ NoneReturned
    /\ actPC = "tracked"
    /\ actPC' = "done"
    /\ reportNow' = now
    /\ cacheAccess' = CacheAccess("read", "none")
    /\ LET seen == { x \in DOMAIN activityCache : activityCache[x].LastSeen # 0 }
           queried == seen
       IN  \E result \in [queried -> IPResultsNow] :
              LET list == { UserActivityReport(activityCache[e], now,
                                               IF e \in queried THEN result[e]
                                                                ELSE [err |-> FALSE, ips |-> {}]) :
                               e \in seen }
              IN  /\ ipQueries' = result
                  /\ activities' = list
                  /\ IF list = {}
                        THEN actErr' = FALSE
                        ELSE \E sent \in BOOLEAN : actErr' = ~sent
    /\ UNCHANGED <<lifeVars, envVars, syncVars, now, xrayStats, activityCache, activeUsers,
                   startCache, samples, trackUsers, trackNow, statsFailed, absentSince,
                   trafficSince>>

\* reportActivity after trackActivity: build the list, send it if not empty
ReportActivity ==
    /\ NoneReturned
    /\ actPC = "tracked"
    /\ actPC' = "done"
    /\ reportNow' = now
    /\ cacheAccess' = CacheAccess("read", "none")
    /\ LET seen == { x \in DOMAIN activityCache : activityCache[x].LastSeen # 0 }
           queried == { x \in seen : IsOnline(activityCache[x], now) }
       IN  \E result \in [queried -> IPResultsNow] :
              LET list == { UserActivityReport(activityCache[e], now,
                                               IF e \in queried THEN result[e]
                                                                ELSE [err |-> FALSE, ips |-> {}]) :
                               e \in seen }
              IN  /\ ipQueries' = result
                  /\ activities' = list
                  /\ IF list = {}
                        THEN actErr' = FALSE
                        ELSE \E sent \in BOOLEAN : actErr' = ~sent
    /\ UNCHANGED <<lifeVars, envVars, syncVars, now, xrayStats, activityCache, activeUsers,
                   startCache, samples, trackUsers, trackNow, statsFailed, absentSince,
                   trafficSince>>

\* activityLoop: the error, if any, is logged and the loop waits for the
\* next tick
ActivityLoopNext ==
    /\ actPC = "done"
    /\ actPC' = "idle"
    /\ activeUsers' = {}
    /\ activities' = {}
    /\ actErr' = FALSE
    /\ startCache' = EmptyMap
    /\ samples' = EmptyMap
    /\ trackUsers' = {}
    /\ trackNow' = 0
    /\ reportNow' = 0
    /\ cacheAccess' = NoAccess
    /\ statsFailed' = {}
    /\ ipQueries' = EmptyMap
    /\ trafficSince' = [trafficSince EXCEPT !.emails = {}]
    /\ UNCHANGED absentSince
    /\ UNCHANGED <<lifeVars, envVars, syncVars, now, xrayStats, activityCache>>

ActivityStep ==
    \/ TrackActivity
    \/ ReportActivity
    \/ ActivityLoopNext

Next ==
    \/ ControllerUpdate(Emails)
    \/ SyncStep

Spec == Init /\ [][Next]_vars

(***************************************************************************)
(* The agent with its activity loop, engine traffic and the clock.         *)
(***************************************************************************)
ActInit == InitOver(ActEmails, TRUE)

ActNext ==
    \/ ControllerUpdate(ActEmails)
    \/ SyncStep
    \/ \E email \in ActEmails : Traffic(email)
    \/ Tick
    \/ ActivityStep

ActSpec == ActInit /\ [][ActNext]_vars

(***************************************************************************)
(* The sync loop under fair scheduling: the ticker keeps firing and every  *)
(* started pass runs to its return.                                        *)
(***************************************************************************)
LiveInit == InitOver(LiveEmails, FALSE)

LiveNext ==
    \/ ControllerUpdate(LiveEmails)
    \/ Stabilize
    \/ SyncStep

LiveSpec == LiveInit /\ [][LiveNext]_vars /\ WF_vars(SyncStep)

(***************************************************************************)
(* Agent.Start and Agent.Stop.                                             *)
(***************************************************************************)
\* initRealityKeys; Start only logs its error
InitRealityKeys ==
    /\ Quiet
    /\ startPC = "created"
    /\ \E rnd \in RandOutcomes :
          LET r == LoadOrCreateRealityKeys(keyFs, rnd)
          IN  /\ keyFs' = r.fs
              /\ realityKeys' = IF r.err THEN realityKeys ELSE r.keys
              /\ keyLoad' = KeyLoad(r, keyFs, keyFsTouched)
    /\ keyFsTouched' = FALSE
    /\ startPC' = "keys"
    /\ startTrace' = Append(startTrace, "keys")
    /\ UNCHANGED <<envVars, syncVars, actVars, cfgVars, loopVars, prevKeyLoad, startErr,
                   engineRunning>>

\* FetchNodeConfig and the resolution of cfg.Xray; a missing Reality field
\* makes Start return an error
StartResolveConfig ==
    /\ Quiet
    /\ startPC = "keys"
    /\ \E outcome \in (IF reliable THEN {"ok"} ELSE FetchOutcomes) :
          LET fetched == FetchNodeConfig(outcome, panelNode)
              r == ResolveConfig(cfg, fetched, realityKeys)
          IN  /\ fetchedConfig' = fetched
              /\ cfg' = r.cfg
              /\ startPC' = IF r.err THEN "failed" ELSE "resolved"
              /\ startErr' = r.err
    /\ startTrace' = Append(startTrace, "config")
    /\ UNCHANGED <<envVars, syncVars, actVars, keyVars, loopVars, localFile, panelNode,
                   engineRunning>>

\* NewAPIClient, the GeoData files (a failure is logged), xrayManager.Start;
\* a failed engine start makes Start return the error
StartEngine ==
    /\ Quiet
    /\ startPC = "resolved"
    /\ \E ok \in (IF reliable THEN {TRUE} ELSE BOOLEAN) :
          /\ engineRunning' = ok
          /\ startPC' = IF ok THEN "engine" ELSE "failed"
          /\ startErr' = ~ok
    /\ startTrace' = Append(startTrace, "engine")
    /\ UNCHANGED <<envVars, syncVars, actVars, keyVars, cfgVars, loopVars>>

\* the two seconds of sleep are over: Start calls syncUsers
StartInitialSync ==
    /\ Quiet
    /\ startPC = "engine"
    /\ startPC' = "sync"
    /\ startTrace' = Append(startTrace, "sync")
    /\ UNCHANGED <<envVars, syncVars, actVars, keyVars, cfgVars, loopVars, startErr,
                   engineRunning>>

\* Start launching the four loops without waiting for the initial syncUsers
StartLaunchLoopsEarly ==
    /\ Quiet
    /\ startPC = "engine"
    /\ syncPC = "idle"
    /\ startPC' = "running"
    /\ startErr' = FALSE
    /\ startTrace' = Append(startTrace, "loops")
    /\ hbPC' = "idle"
    /\ trPC' = "idle"
    /\ UNCHANGED <<envVars, syncVars, actVars, keyVars, cfgVars, engineRunning, cancelled,
                   hbErr, heartbeat, trErr, trafficReport>>

\* Start returning the error of the initial syncUsers instead of logging it
StartFailsOnSyncError ==
    /\ startPC = "sync"
    /\ syncPC = "done"
    /\ startPC' = IF syncErr THEN "failed" ELSE "running"
    /\ startErr' = syncErr
    /\ startTrace' = IF syncErr THEN startTrace ELSE Append(startTrace, "loops")
    /\ hbPC' = IF syncErr THEN hbPC ELSE "idle"
    /\ trPC' = IF syncErr THEN trPC ELSE "idle"
    /\ syncPC' = "idle"
    /\ prevFailedAdds' = IF syncErr THEN prevFailedAdds ELSE failedAdds
    /\ prevFailedRemoves' = IF syncErr THEN prevFailedRemoves ELSE failedRemoves
    /\ panelUsers' = EmptyMap
    /\ startUsers' = EmptyMap
    /\ addCalls' = ZeroCalls
    /\ removeCalls' = ZeroCalls
    /\ failedAdds' = {}
    /\ failedRemoves' = {}
    /\ fetchOutcome' = "none"
    /\ sameFetch' = FALSE
    /\ syncErr' = FALSE
    /\ UNCHANGED <<envVars, actVars, keyVars, cfgVars, currentUsers, xrayUsers, addTodo,
                   removeTodo, engineRunning, cancelled, hbErr, heartbeat, trErr,
                   trafficReport>>

\* Start running its initial syncUsers in a goroutine of its own and launching
\* the four loops at once
StartLaunchLoopsDuringSync ==
    /\ startPC = "sync"
    /\ syncPC \in {"idle", "lock", "add", "remove", "done"}
    /\ startPC' = "running"
    /\ startErr' = FALSE
    /\ startTrace' = Append(startTrace, "loops")
    /\ hbPC' = "idle"
    /\ trPC' = "idle"
    /\ UNCHANGED <<envVars, syncVars, actVars, keyVars, cfgVars, engineRunning, cancelled,
                   hbErr, heartbeat, trErr, trafficReport>>

\* the initial syncUsers has returned (an error is logged): Start launches
\* the four loops and returns nil
StartLaunchLoops ==
    /\ startPC = "sync"
    /\ syncPC = "done"
    /\ startPC' = "running"
    /\ startErr' = FALSE
    /\ startTrace' = Append(startTrace, "loops")
    /\ hbPC' = "idle"
    /\ trPC' = "idle"
    /\ syncPC' = "idle"
    /\ prevFailedAdds' = IF syncErr THEN prevFailedAdds ELSE failedAdds
    /\ prevFailedRemoves' = IF syncErr THEN prevFailedRemoves ELSE failedRemoves
    /\ panelUsers' = EmptyMap
    /\ startUsers' = EmptyMap
    /\ addCalls' = ZeroCalls
    /\ removeCalls' = ZeroCalls
    /\ failedAdds' = {}
    /\ failedRemoves' = {}
    /\ fetchOutcome' = "none"
    /\ sameFetch' = FALSE
    /\ syncErr' = FALSE
    /\ UNCHANGED <<envVars, actVars, keyVars, cfgVars, currentUsers, xrayUsers, addTodo,
                   removeTodo, engineRunning, cancelled, hbErr, heartbeat, trErr,
                   trafficReport>>

StartStep ==
    \/ InitRealityKeys
    \/ StartResolveConfig
    \/ StartEngine
    \/ StartInitialSync
    \/ StartLaunchLoops

\* the process ends: what the agent and the embedded engine held in memory is
\* gone, the disk and the panel keep their state
ProcessExit ==
    /\ keyLoad' = NoKeyLoad
    /\ realityKeys' = NoKeys
    /\ cfg' = LoadXrayConfig(localFile)
    /\ fetchedConfig' = NoFetch
    /\ startErr' = FALSE
    /\ startTrace' = <<>>
    /\ engineRunning' = FALSE
    /\ hbPC' = "none"
    /\ hbErr' = FALSE
    /\ heartbeat' = NoHeartbeat
    /\ trPC' = "none"
    /\ trErr' = FALSE
    /\ trafficReport' = {}
    /\ currentUsers' = EmptyMap
    /\ xrayUsers' = EmptyMap
    /\ syncPC' = "idle"
    /\ syncErr' = FALSE
    /\ panelUsers' = EmptyMap
    /\ addTodo' = {}
    /\ removeTodo' = {}
    /\ startUsers' = EmptyMap
    /\ addCalls' = ZeroCalls
    /\ removeCalls' = ZeroCalls
    /\ failedAdds' = {}
    /\ failedRemoves' = {}
    /\ prevFailedAdds' = {}
    /\ prevFailedRemoves' = {}
    /\ fetchOutcome' = "none"
    /\ sameFetch' = FALSE
    /\ desiredChanged' = TRUE
    /\ xrayStats' = [e \in Emails |-> [up |-> 0, down |-> 0]]
    /\ activityCache' = EmptyMap
    /\ actPC' = "idle"
    /\ activeUsers' = {}
    /\ activities' = {}
    /\ actErr' = FALSE
    /\ startCache' = EmptyMap
    /\ samples' = EmptyMap
    /\ trackUsers' = {}
    /\ trackNow' = 0
    /\ reportNow' = 0
    /\ cacheAccess' = NoAccess
    /\ statsFailed' = {}
    /\ ipQueries' = EmptyMap
    /\ absentSince' = EmptyMap
    /\ trafficSince' = [trafficSince EXCEPT !.emails = {}]
    /\ UNCHANGED <<desired, frozen, reliable, now, keyFs, keyFsTouched, localFile, panelNode>>

\* Stop: a.cancel()
StopCancel ==
    /\ Quiet
    /\ startPC = "running"
    /\ startPC' = "stopping"
    /\ cancelled' = TRUE
    /\ UNCHANGED <<envVars, syncVars, actVars, keyVars, cfgVars, startErr, startTrace,
                   engineRunning, hbPC, hbErr, heartbeat, trPC, trErr, trafficReport>>

\* Stop: xrayManager.Stop() closes the engine instance; its error is logged.
\* Stop waits for no goroutine: the iterations in progress go on
StopEngine ==
    /\ Quiet
    /\ startPC = "stopping"
    /\ engineRunning
    /\ engineRunning' = FALSE
    /\ UNCHANGED <<envVars, syncVars, actVars, keyVars, cfgVars, startPC, startErr,
                   startTrace, loopVars>>

\* Stop returns nil and main returns: the process ends
StopReturn ==
    /\ Quiet
    /\ startPC = "stopping"
    /\ ~engineRunning
    /\ startPC' = "stopped"
    /\ ProcessExit
    /\ UNCHANGED <<cancelled, prevKeyLoad>>

Stop ==
    \/ StopCancel
    \/ StopEngine
    \/ StopReturn

(***************************************************************************)
(* heartbeatLoop and trafficReportLoop; the exits of the four loops.       *)
(***************************************************************************)
\* sendHeartbeat reading len(currentUsers) without RLock
SendHeartbeatNoLock ==
    /\ Quiet
    /\ Ticking
    /\ hbPC = "idle"
    /\ hbPC' = "done"
    /\ heartbeat' = HeartbeatRequest(Cardinality(DOMAIN currentUsers), realityKeys)
    /\ \E sent \in (IF reliable THEN {TRUE} ELSE BOOLEAN) : hbErr' = ~sent
    /\ UNCHANGED <<envVars, syncVars, actVars, keyVars, cfgVars, startVars, cancelled,
                   trPC, trErr, trafficReport>>

\* sendHeartbeat: the user count is read under the read lock
SendHeartbeat ==
    /\ Quiet
    /\ Ticking
    /\ hbPC = "idle"
    /\ CanRLock
    /\ hbPC' = "done"
    /\ heartbeat' = HeartbeatRequest(Cardinality(DOMAIN currentUsers), realityKeys)
    /\ \E sent \in (IF reliable THEN {TRUE} ELSE BOOLEAN) : hbErr' = ~sent
    /\ UNCHANGED <<envVars, syncVars, actVars, keyVars, cfgVars, startVars, cancelled,
                   trPC, trErr, trafficReport>>

\* heartbeatLoop returning when sendHeartbeat returned an error, in place of
\* logging it
HeartbeatLoopExitsOnError ==
    /\ hbPC = "done"
    /\ hbPC' = IF hbErr THEN "exited" ELSE "idle"
    /\ hbErr' = FALSE
    /\ heartbeat' = NoHeartbeat
    /\ UNCHANGED <<envVars, syncVars, actVars, keyVars, cfgVars, startVars, cancelled,
                   trPC, trErr, trafficReport>>

\* heartbeatLoop: the error, if any, is logged and the loop waits for the
\* next tick
HeartbeatLoopNext ==
    /\ hbPC = "done"
    /\ hbPC' = "idle"
    /\ hbErr' = FALSE
    /\ heartbeat' = NoHeartbeat
    /\ UNCHANGED <<envVars, syncVars, actVars, keyVars, cfgVars, startVars, cancelled,
                   trPC, trErr, trafficReport>>

\* outcomes of ResetUserStats: which of the two counters the engine reset
ResetOutcomes == [up : BOOLEAN, down : BOOLEAN]

\* models.UserTrafficReport
UserTrafficReport(email, stats) ==
    [UserEmail |-> email, UploadBytes |-> stats.UploadBytes,
     DownloadBytes |-> stats.DownloadBytes]

\* reportTraffic from RLock() to the call of panelClient.ReportTraffic: the
\* counters of every user with traffic are collected and reset; with nothing
\* to report it returns nil
ReportTrafficCollect ==
    /\ Quiet
    /\ Ticking
    /\ trPC = "idle"
    /\ CanRLock
    /\ trErr' = FALSE
    /\ IF DOMAIN currentUsers = {}
          THEN /\ trafficReport' = {}
               /\ trPC' = "done"
               /\ UNCHANGED xrayStats
          ELSE \E outcome \in [DOMAIN currentUsers -> StatsOutcomesNow],
                  reset \in [DOMAIN currentUsers -> ResetOutcomes] :
                  LET stats == [e \in DOMAIN currentUsers |->
                                   GetUserStats(outcome[e], xrayStats[e])]
                      reported == { e \in DOMAIN currentUsers :
                                       /\ ~stats[e].err
                                       /\ stats[e].UploadBytes > 0
                                             \/ stats[e].DownloadBytes > 0 }
                  IN  /\ trafficReport' = { UserTrafficReport(e, stats[e]) : e \in reported }
                      /\ xrayStats' =
                            [e \in DOMAIN xrayStats |->
                                IF e \in reported /\ engineRunning
                                   THEN [up |-> IF reset[e].up THEN 0 ELSE xrayStats[e].up,
                                         down |-> IF reset[e].down THEN 0
                                                                   ELSE xrayStats[e].down]
                                   ELSE xrayStats[e]]
                      /\ trPC' = IF reported = {} THEN "done" ELSE "sending"
    /\ UNCHANGED <<envVars, syncVars, keyVars, cfgVars, startVars, cancelled, hbPC, hbErr,
                   heartbeat, now, activityCache, actHist, actPC, activeUsers, activities, actErr,
                   startCache, samples, trackUsers, trackNow, reportNow>>

\* reportTraffic: panelClient.ReportTraffic returns, its error is returned;
\* the deferred RUnlock runs
ReportTrafficSend ==
    /\ Quiet
    /\ trPC = "sending"
    /\ trPC' = "done"
    /\ \E sent \in (IF reliable THEN {TRUE} ELSE BOOLEAN) : trErr' = ~sent
    /\ UNCHANGED <<envVars, syncVars, actVars, keyVars, cfgVars, startVars, cancelled,
                   hbPC, hbErr, heartbeat, trafficReport>>

ReportTraffic ==
    \/ ReportTrafficCollect
    \/ ReportTrafficSend

\* trafficReportLoop: the error, if any, is logged and the loop waits for the
\* next tick
TrafficLoopNext ==
    /\ trPC = "done"
    /\ trPC' = "idle"
    /\ trErr' = FALSE
    /\ trafficReport' = {}
    /\ UNCHANGED <<envVars, syncVars, actVars, keyVars, cfgVars, startVars, cancelled,
                   hbPC, hbErr, heartbeat>>

\* the select of a loop takes the ctx.Done() case: the loop returns.  The
\* return of one loop changes nothing any other step reads, so the four
\* returns are placed in one order (heartbeat, sync, traffic, activity); a
\* loop whose turn has not come stays at its select or takes a tick
HeartbeatLoopExit ==
    /\ Quiet
    /\ cancelled
    /\ Launched
    /\ hbPC = "idle"
    /\ hbPC' = "exited"
    /\ UNCHANGED <<envVars, syncVars, actVars, keyVars, cfgVars, startVars, cancelled,
                   hbErr, heartbeat, trPC, trErr, trafficReport>>

UserSyncLoopExit ==
    /\ Quiet
    /\ cancelled
    /\ hbPC = "exited"
    /\ Launched
    /\ syncPC = "idle"
    /\ syncPC' = "exited"
    /\ UNCHANGED <<envVars, actVars, lifeVars, currentUsers, xrayUsers, syncErr, panelUsers,
                   addTodo, removeTodo, startUsers, addCalls, removeCalls, failedAdds,
                   failedRemoves, prevFailedAdds, prevFailedRemoves, fetchOutcome,
                   sameFetch>>

TrafficLoopExit ==
    /\ Quiet
    /\ cancelled
    /\ syncPC = "exited"
    /\ Launched
    /\ trPC = "idle"
    /\ trPC' = "exited"
    /\ UNCHANGED <<envVars, syncVars, actVars, keyVars, cfgVars, startVars, cancelled,
                   hbPC, hbErr, heartbeat, trErr, trafficReport>>

ActivityLoopExit ==
    /\ Quiet
    /\ cancelled
    /\ trPC = "exited"
    /\ Launched
    /\ actPC = "idle"
    /\ actPC' = "exited"
    /\ UNCHANGED <<envVars, syncVars, lifeVars, now, xrayStats, activityCache, actHist, activeUsers,
                   activities, actErr, startCache, samples, trackUsers, trackNow,
                   reportNow>>

HeartbeatStep ==
    \/ SendHeartbeat
    \/ HeartbeatLoopNext

TrafficReportStep ==
    \/ ReportTraffic
    \/ TrafficLoopNext

LoopExit ==
    \/ HeartbeatLoopExit
    \/ UserSyncLoopExit
    \/ TrafficLoopExit
    \/ ActivityLoopExit

(***************************************************************************)
(* Start, from the created agent to its return, and the sync loop after it, *)
(* over the local files and the node records.                              *)
(***************************************************************************)
\* the key file is absent and can be created, or cannot
StartDisks == {Absent(TRUE), Absent(FALSE)}

StartInit == NewAgent(ActEmails, FALSE) /\ Created(LocalFiles, NodeConfigs, StartDisks)

StartNext ==
    \/ StartStep
    \/ SyncStep

StartSpec == StartInit /\ [][StartNext]_vars

(***************************************************************************)
(* The whole agent: Start, the four loops, engine traffic, Stop; the       *)
(* panel's user list stays as it is.                                       *)
(***************************************************************************)
AgentInit ==
    NewAgent(ActEmails, FALSE) /\ Created({MinimalFile}, {DefaultNode}, {Absent(TRUE)})

AgentNext ==
    \/ StartStep
    \/ Stop
    \/ SyncStep
    \/ \E email \in ActEmails : Traffic(email)
    \/ ActivityStep
    \/ HeartbeatStep
    \/ TrafficReportStep
    \/ LoopExit

AgentSpec == AgentInit /\ [][AgentNext]_vars

(***************************************************************************)
(* The activity loop and the traffic-report loop over the same engine      *)
(* counters, with the traffic between two activity ticks recorded.         *)
(***************************************************************************)
CounterInit == NewAgent(ActEmails, TRUE) /\ RunningWith(TRUE)

CounterNext ==
    \/ SyncStep
    \/ \E email \in ActEmails : Traffic(email)
    \/ ActivityStep
    \/ TrafficReportStep

CounterSpec == CounterInit /\ [][CounterNext]_vars

(***************************************************************************)
(* The key file over restarts of the process.                              *)
(***************************************************************************)
\* an operator, another program or a crash changes the key path on disk
KeyFileChanged ==
    /\ \E fs \in KeyFsStates :
          /\ fs # keyFs
          /\ keyFs' = fs
    /\ keyFsTouched' = TRUE
    /\ UNCHANGED <<envVars, syncVars, actVars, cfgVars, startVars, loopVars, realityKeys,
                   keyLoad, prevKeyLoad>>

\* the process ends and is started again (main: config.Load, NewAgent): the
\* disk and the panel keep their state, the agent and the embedded engine
\* start from scratch
Restart ==
    /\ startPC # "created"
    /\ prevKeyLoad' = keyLoad
    /\ startPC' = "created"
    /\ cancelled' = FALSE
    /\ ProcessExit

KeyInit == NewAgent(ActEmails, FALSE) /\ Created({MinimalFile}, {DefaultNode}, KeyFsStates)

KeyNext ==
    \/ InitRealityKeys
    \/ KeyFileChanged
    \/ Restart

KeySpec == KeyInit /\ [][KeyNext]_vars

(***************************************************************************)
(* One run of the process, from NewAgent to Stop, over the states of the   *)
(* key path on disk.                                                       *)
(***************************************************************************)
LifetimeInit ==
    NewAgent(ActEmails, FALSE) /\ Created({MinimalFile}, {DefaultNode}, KeyFsStates)

LifetimeNext ==
    \/ StartStep
    \/ Stop
    \/ SyncStep
    \/ HeartbeatStep
    \/ LoopExit

LifetimeSpec == LifetimeInit /\ [][LifetimeNext]_vars

(***************************************************************************)
(* Properties of the reconciliation pass.                                  *)
(***************************************************************************)
DesiredEmails == { u.Email : u \in desired }

PassReturned == syncPC = "done"

PassReturnedNil == syncPC = "done" /\ ~syncErr

NoEngineCall == addCalls = ZeroCalls /\ removeCalls = ZeroCalls

NoCallFailed == failedAdds = {} /\ failedRemoves = {}

\* C1 (convergence): a pass that started from an empty currentUsers, fetched
\* the panel's list and had no failing engine call returns with currentUsers
\* holding exactly the emails of the list, each mapped to the UserConfig the
\* panel returned for it.
Convergence ==
    (PassReturnedNil /\ startUsers = EmptyMap /\ NoCallFailed)
        => /\ DOMAIN currentUsers = DesiredEmails
           /\ \A u \in desired : currentUsers[u.Email] = u

ConvergenceWitness ==
    /\ PassReturnedNil /\ startUsers = EmptyMap /\ NoCallFailed
    /\ Cardinality(desired) >= 3
    /\ \E u \in desired : u.UUID = 2 /\ currentUsers[u.Email] = u

\* C2 as stated (idempotence): a pass that fetched the same list as the
\* previous pass issues no AddUser and no RemoveUser call.
IdempotenceAsStated ==
    sameFetch => NoEngineCall

\* C2 as amended: a pass that fetched the same list as the previous pass
\* issues no AddUser and no RemoveUser call, provided no engine call of the
\* previous pass failed.
Idempotence ==
    (sameFetch /\ prevFailedAdds = {} /\ prevFailedRemoves = {}) => NoEngineCall

IdempotenceWitness ==
    /\ PassReturnedNil /\ sameFetch
    /\ prevFailedAdds = {} /\ prevFailedRemoves = {}
    /\ Cardinality(DOMAIN currentUsers) >= 2
    /\ NoEngineCall

\* C3 (diff correctness): a pass that fetched list D with currentUsers = P at
\* its start has, when it returns, issued AddUser exactly once for each email
\* of D \ P, RemoveUser exactly once for each email of P \ D, and no call for
\* any other email.
DiffCorrectness ==
    PassReturnedNil =>
        \A e \in Emails :
            /\ addCalls[e] =
                  (IF e \in DOMAIN panelUsers /\ e \notin DOMAIN startUsers THEN 1 ELSE 0)
            /\ removeCalls[e] =
                  (IF e \in DOMAIN startUsers /\ e \notin DOMAIN panelUsers THEN 1 ELSE 0)

DiffCorrectnessWitness ==
    /\ PassReturnedNil
    /\ DOMAIN startUsers = {"a", "b", "c"}
    /\ DOMAIN panelUsers = {"b", "c", "d"}
    /\ addCalls = [e \in Emails |-> IF e = "d" THEN 1 ELSE 0]
    /\ removeCalls = [e \in Emails |-> IF e = "a" THEN 1 ELSE 0]

\* C4 (agent and engine agree): when a pass has returned, every email whose
\* engine call did not fail in that pass is in currentUsers exactly when it
\* is in the engine's table, with the same UUID; and an email whose AddUser
\* (RemoveUser) call failed in the previous pass gets an AddUser (RemoveUser)
\* call in this pass when the fetched list still has it (still lacks it).
EngineAgreement ==
    /\ PassReturned =>
          \A e \in Emails \ (failedAdds \cup failedRemoves) :
              /\ e \in DOMAIN currentUsers <=> e \in DOMAIN xrayUsers
              /\ e \in DOMAIN currentUsers => xrayUsers[e] = currentUsers[e].UUID
    /\ PassReturnedNil =>
          /\ \A e \in prevFailedAdds : e \in DOMAIN panelUsers => addCalls[e] = 1
          /\ \A e \in prevFailedRemoves : e \notin DOMAIN panelUsers => removeCalls[e] = 1

EngineAgreementWitness ==
    /\ PassReturnedNil
    /\ \E e \in prevFailedAdds : addCalls[e] = 1 /\ e \in DOMAIN xrayUsers
    /\ \E e \in prevFailedRemoves : removeCalls[e] = 1 /\ e \notin DOMAIN xrayUsers
    /\ failedAdds \cup failedRemoves # {}

\* C5 as stated: when a pass returns nil, every key of currentUsers is an
\* email of the list that pass fetched.
SubsetOfFetchedAsStated ==
    PassReturnedNil => DOMAIN currentUsers \subseteq DesiredEmails

\* C5 as amended: when a pass returns nil and none of its RemoveUser calls
\* failed, every key of currentUsers is an email of the list that pass
\* fetched.
SubsetOfFetched ==
    (PassReturnedNil /\ failedRemoves = {}) => DOMAIN currentUsers \subseteq DesiredEmails

SubsetOfFetchedWitness ==
    /\ PassReturnedNil /\ failedRemoves = {}
    /\ \E e \in Emails : removeCalls[e] = 1
    /\ failedAdds # {}
    /\ currentUsers # EmptyMap

\* C6 (fetch failure): a pass whose FetchUserSync failed returns the error,
\* with currentUsers as it was when the pass started and without any AddUser
\* or RemoveUser call.
FetchFailureAborts ==
    (PassReturned /\ fetchOutcome # "ok")
        => /\ syncErr
           /\ currentUsers = startUsers
           /\ NoEngineCall

FetchFailureAbortsWitness ==
    /\ PassReturned /\ fetchOutcome = "not_success"
    /\ syncErr
    /\ DOMAIN currentUsers \ DesiredEmails # {}
    /\ DesiredEmails \ DOMAIN currentUsers # {}

\* C7 (per-identity failure): an email whose AddUser call failed is not in
\* currentUsers, an email whose RemoveUser call failed is still in it with the
\* entry it had; the pass still visits every other email (one AddUser call for
\* each email to add, one RemoveUser call for each email to remove) and
\* returns nil.
FailureIsLocal ==
    /\ \A e \in failedAdds : e \notin DOMAIN currentUsers
    /\ \A e \in failedRemoves :
          e \in DOMAIN currentUsers /\ currentUsers[e] = startUsers[e]
    /\ (PassReturned /\ ~NoCallFailed) =>
          /\ ~syncErr
          /\ \A e \in DOMAIN panelUsers \ DOMAIN startUsers : addCalls[e] = 1
          /\ \A e \in DOMAIN startUsers \ DOMAIN panelUsers : removeCalls[e] = 1
          /\ \A e \in (DOMAIN panelUsers \ DOMAIN startUsers) \ failedAdds :
                e \in DOMAIN currentUsers
          /\ \A e \in (DOMAIN startUsers \ DOMAIN panelUsers) \ failedRemoves :
                e \notin DOMAIN currentUsers

FailureIsLocalWitness ==
    /\ PassReturned
    /\ failedAdds # {} /\ failedRemoves # {}
    /\ (DOMAIN panelUsers \ DOMAIN startUsers) \ failedAdds # {}
    /\ (DOMAIN startUsers \ DOMAIN panelUsers) \ failedRemoves # {}

Tracked == actPC \in {"tracked", "done"}

\* C9 (activity delta): for an email that had a UserActivityState with
\* baseline (u0, d0) when the tick started and whose counters were sampled as
\* (u, d): when u <= u0 and d <= d0 the state has IsActive = FALSE and the
\* LastSeen it had; when u > u0 or d > d0 it has IsActive = TRUE and
\* LastSeen = the tick's "now".
ActivityDelta ==
    Tracked =>
        \A e \in (DOMAIN samples) \cap (DOMAIN startCache) :
            LET u0 == startCache[e].LastUplink
                d0 == startCache[e].LastDownlink
                u == samples[e].up
                d == samples[e].down
            IN  /\ e \in DOMAIN activityCache
                /\ (u <= u0 /\ d <= d0) =>
                      /\ activityCache[e].IsActive = FALSE
                      /\ activityCache[e].LastSeen = startCache[e].LastSeen
                /\ (u > u0 \/ d > d0) =>
                      /\ activityCache[e].IsActive = TRUE
                      /\ activityCache[e].LastSeen = trackNow

\* an uplink counter above the baseline with the downlink counter at the
\* baseline, as in the sample (150, 50) against the baseline (100, 50)
ActivityDeltaWitness ==
    /\ actPC = "tracked"
    /\ \E e \in (DOMAIN samples) \cap (DOMAIN startCache) :
          /\ samples[e].up > startCache[e].LastUplink
          /\ samples[e].down = startCache[e].LastDownlink
          /\ startCache[e].LastSeen # trackNow
          /\ activityCache[e].IsActive
          /\ activityCache[e].LastSeen = trackNow

\* C10 (online threshold): the report lists every cached state whose LastSeen
\* is set, and marks it online exactly when IsActive is TRUE or the time since
\* LastSeen is below 120 seconds; with IsActive = FALSE, 90 seconds is online
\* and 150 seconds is offline.
OnlineThresholdRule ==
    actPC = "done" =>
        /\ \A e \in DOMAIN activityCache :
              activityCache[e].LastSeen # 0 => \E r \in activities : r.Email = e
        /\ \A r \in activities :
              LET state == activityCache[r.Email]
                  age == reportNow - state.LastSeen
              IN  /\ r.IsOnline <=> (state.IsActive \/ age < 120)
                  /\ (~state.IsActive /\ age = 90) => r.IsOnline
                  /\ (~state.IsActive /\ age = 150) => ~r.IsOnline

OnlineThresholdRuleWitness ==
    /\ actPC = "done"
    /\ \E r \in activities :
          /\ ~activityCache[r.Email].IsActive
          /\ reportNow - activityCache[r.Email].LastSeen = 150
          /\ ~r.IsOnline

\* the same identity 90 seconds after it was last seen
OnlineAtNinetySeconds ==
    /\ actPC = "done"
    /\ \E r \in activities :
          /\ ~activityCache[r.Email].IsActive
          /\ reportNow - activityCache[r.Email].LastSeen = 90
          /\ r.IsOnline

\* C11 (first observation): an email sampled in this tick that had no
\* UserActivityState when the tick started has one afterwards, with the
\* sampled counters as its baseline, IsActive = FALSE and LastSeen unset
\* (the zero time), whatever the counters are.
FirstObservation ==
    Tracked =>
        \A e \in (DOMAIN samples) \ (DOMAIN startCache) :
            /\ e \in DOMAIN activityCache
            /\ activityCache[e] = [Email |-> e, LastSeen |-> 0,
                                   LastUplink |-> samples[e].up,
                                   LastDownlink |-> samples[e].down,
                                   IsActive |-> FALSE]
            /\ e \notin activeUsers

\* a first sample whose counters are already above zero
FirstObservationWitness ==
    /\ actPC = "tracked"
    /\ \E e \in (DOMAIN samples) \ (DOMAIN startCache) :
          /\ samples[e].up > 0
          /\ activityCache[e].LastUplink = samples[e].up
          /\ activityCache[e].LastSeen = 0
          /\ ~activityCache[e].IsActive

\* C12 (baseline follows the sample): every email sampled in this tick has
\* the sampled counters as its baseline afterwards; when neither counter is
\* above the baseline the tick started with and one is below it, the state
\* has IsActive = FALSE and the LastSeen it had.
BaselineFollowsSample ==
    Tracked =>
        /\ \A e \in DOMAIN samples :
              /\ e \in DOMAIN activityCache
              /\ activityCache[e].LastUplink = samples[e].up
              /\ activityCache[e].LastDownlink = samples[e].down
        /\ \A e \in (DOMAIN samples) \cap (DOMAIN startCache) :
              LET u0 == startCache[e].LastUplink
                  d0 == startCache[e].LastDownlink
                  u == samples[e].up
                  d == samples[e].down
              IN  (u <= u0 /\ d <= d0 /\ (u < u0 \/ d < d0)) =>
                      /\ ~activityCache[e].IsActive
                      /\ e \notin activeUsers
                      /\ activityCache[e].LastSeen = startCache[e].LastSeen

\* an identity seen earlier whose uplink counter is sampled below its baseline
BaselineFollowsSampleWitness ==
    /\ actPC = "tracked"
    /\ \E e \in (DOMAIN samples) \cap (DOMAIN startCache) :
          /\ samples[e].up < startCache[e].LastUplink
          /\ samples[e].down <= startCache[e].LastDownlink
          /\ startCache[e].LastSeen # 0
          /\ activityCache[e].LastSeen = startCache[e].LastSeen
          /\ activityCache[e].LastUplink = samples[e].up
          /\ ~activityCache[e].IsActive

\* C13 (activity-cache garbage collection): when an activity tick has
\* completed, every UserActivityState of the cache belongs to an email that
\* is in currentUsers, or was in it when the tick sampled the counters.
ActivityCacheCollected ==
    actPC = "done" =>
        \A e \in DOMAIN activityCache : e \in (DOMAIN currentUsers) \cup trackUsers

(***************************************************************************)
(* Properties of Start.                                                    *)
(***************************************************************************)
IsPrefix(t, order) == Len(t) <= Len(order) /\ SubSeq(order, 1, Len(t)) = t

\* C14 (fatal configuration): when the fetched node record has Reality
\* enabled and an empty destination, server-name list or short-id list, Start
\* has returned an error after the steps "keys" and "config" only: the engine
\* was not started, no syncUsers call was made and no loop was launched.
FatalConfiguration ==
    (/\ fetchedConfig.called /\ fetchedConfig.ok
     /\ fetchedConfig.node.RealityEnabled
     /\ \/ fetchedConfig.node.RealityDest = ""
        \/ fetchedConfig.node.RealityServerNames = ""
        \/ fetchedConfig.node.RealityShortIds = "")
        => /\ startPC = "failed" /\ startErr
           /\ startTrace = <<"keys", "config">>
           /\ ~engineRunning
           /\ syncPC = "idle" /\ fetchOutcome = "none" /\ NoEngineCall
           /\ currentUsers = EmptyMap
           /\ hbPC = "none" /\ trPC = "none" /\ actPC = "idle" /\ ~Launched

\* Reality enabled with only the short ids missing
FatalConfigurationWitness ==
    /\ startPC = "failed"
    /\ fetchedConfig.ok
    /\ fetchedConfig.node.RealityEnabled
    /\ fetchedConfig.node.RealityDest # ""
    /\ fetchedConfig.node.RealityServerNames # ""
    /\ fetchedConfig.node.RealityShortIds = ""

\* C15 (fallback): when Start's FetchNodeConfig failed, cfg.Xray has the
\* protocol and the listen port of the local config.yaml, and Start does not
\* return an error before the engine start.
FallbackToLocalFile ==
    (fetchedConfig.called /\ ~fetchedConfig.ok)
        => /\ cfg.Protocol = localFile.protocol
           /\ cfg.ListenPort = localFile.listen_port
           /\ startPC = "failed" => startTrace = <<"keys", "config", "engine">>

\* C16 (precedence): once the configuration is resolved, each of protocol,
\* listen port, TLS flag, SNI, inbound tag and API port has the panel's value
\* when the fetch succeeded and the node record sets the field, and the value
\* of the local config.yaml otherwise (for an inbound tag the file does not
\* set either, any default).
ConfigPrecedence ==
    (fetchedConfig.called /\ ~(startPC = "failed" /\ startTrace = <<"keys", "config">>))
        => LET node == fetchedConfig.node
               reachable == fetchedConfig.ok
           IN  /\ cfg.Protocol = IF reachable /\ node.Protocol # ""
                                    THEN node.Protocol ELSE localFile.protocol
               /\ cfg.ListenPort = IF reachable /\ node.Port # 0
                                      THEN node.Port ELSE localFile.listen_port
               /\ (reachable /\ node.TLSEnabled) => cfg.TLSEnabled
               /\ ~reachable => cfg.TLSEnabled = localFile.tls_enabled
               /\ cfg.SNI = IF reachable /\ node.SNI # "" THEN node.SNI ELSE localFile.sni
               /\ IF reachable /\ node.InboundTag # ""
                     THEN cfg.InboundTag = node.InboundTag
                     ELSE localFile.inbound_tag # ""
                             => cfg.InboundTag = localFile.inbound_tag
               /\ cfg.APIPort = IF reachable /\ node.APIPort # 0
                                   THEN node.APIPort ELSE localFile.api_port

\* C19 (startup ordering): the steps of Start are taken in the order key
\* load/create, config resolution, engine start, initial syncUsers, launch of
\* the loops; a syncUsers call is made only after the engine start, a loop
\* runs only after the launch, and the launch happens at the return of the
\* initial syncUsers.
StartupOrdering ==
    /\ [](/\ IsPrefix(startTrace, <<"keys", "config", "engine", "sync", "loops">>)
          /\ (syncPC # "idle" \/ fetchOutcome # "none") => Len(startTrace) >= 4
          /\ (hbPC # "none" \/ trPC # "none" \/ actPC # "idle") => Len(startTrace) = 5
          /\ engineRunning => Len(startTrace) >= 3)
    /\ [][(Len(startTrace') = 5 /\ Len(startTrace) # 5)
             => (Len(startTrace) = 4 /\ syncPC = "done")]_vars

\* Start has returned nil and the initial syncUsers had provisioned a user
StartupOrderingWitness ==
    /\ startPC = "running" /\ ~startErr
    /\ startTrace = <<"keys", "config", "engine", "sync", "loops">>
    /\ syncPC = "idle" /\ hbPC = "idle"
    /\ currentUsers # EmptyMap

Damaged(fs) ==
    \/ ~fs.exists
    \/ ~fs.readable
    \/ DecodeString(fs.content).err
    \/ Len(DecodeString(fs.content).bytes) # 32

\* keys is a keypair GenerateRealityKeypair makes and fs holds its private key
FreshAndPersisted(keys, fs) ==
    /\ \E k \in RandomKeys :
          /\ keys.PrivateKey = EncodeToString(Clamp(k))
          /\ keys.PublicKey = [point |-> Clamp(k)]
    /\ fs.exists
    /\ fs.content = keys.PrivateKey

LoopsSurviveFailures ==
    /\ []((hbPC = "exited" \/ syncPC = "exited" \/ trPC = "exited" \/ actPC = "exited")
             => cancelled)
    /\ [][/\ hbPC = "done" => hbPC' \in {"done", "idle"}
          /\ syncPC = "done" => syncPC' \in {"done", "idle"}
          /\ trPC = "done" => trPC' \in {"done", "idle"}
          /\ actPC = "done" => actPC' \in {"done", "idle"}
          /\ (~cancelled /\ ~cancelled')
                => /\ hbPC' = "exited" <=> hbPC = "exited"
                   /\ syncPC' = "exited" <=> syncPC = "exited"
                   /\ trPC' = "exited" <=> trPC = "exited"
                   /\ actPC' = "exited" <=> actPC = "exited"]_vars

\* a failed reportActivity iteration returns while the other loops wait at
\* their selects and the context is not cancelled
LoopsSurviveFailuresWitness ==
    /\ Launched /\ ~cancelled
    /\ actPC = "done" /\ actErr
    /\ hbPC = "idle" /\ syncPC = "idle" /\ trPC = "idle"

\* C21 (stopping): Stop cancels the context before it stops the engine, and
\* once the context is cancelled no loop starts another iteration: a loop
\* at its select stays there or returns.
StoppingStartsNoIteration ==
    /\ [][(engineRunning /\ ~engineRunning') => cancelled]_vars
    /\ [][cancelled
             => /\ hbPC = "idle" => hbPC' \in {"idle", "exited", "none"}
                /\ syncPC = "idle" => syncPC' \in {"idle", "exited"}
                /\ trPC = "idle" => trPC' \in {"idle", "exited", "none"}
                /\ actPC = "idle" => actPC' \in {"idle", "exited"}]_vars

(***************************************************************************)
(* Properties of usersMutex.                                               *)
(***************************************************************************)
\* C22 (no task blocks another): while reportTraffic waits for the panel, a
\* syncUsers call that has fetched and is at usersMutex.Lock() can take the
\* lock.
NoTaskBlocksAnother ==
    (trPC = "sending" /\ syncPC = "lock") => ENABLED SyncLock

\* C23 (ProvisionedSet under the lock): currentUsers changes only in a step
\* of syncUsers between its Lock() and its return, never while a reader is
\* in its RLock section; sendHeartbeat, reportTraffic and trackActivity enter
\* their RLock section only while syncUsers does not hold the write lock.
ProvisionedSetLocking ==
    /\ [](~(syncPC \in {"add", "remove"} /\ trPC = "sending"))
    /\ [][currentUsers' # currentUsers
             => \/ syncPC \in {"add", "remove"} /\ trPC # "sending"
                \/ startPC = "stopping" /\ startPC' = "stopped"]_vars
    /\ [][(\/ hbPC = "idle" /\ hbPC' = "done"
           \/ trPC = "idle" /\ trPC' \in {"sending", "done"}
           \/ actPC = "idle" /\ actPC' = "tracked")
             => syncPC \notin {"add", "remove"}]_vars

\* reportTraffic holds the read lock over a provisioned user and the
\* reconciler, which has fetched, waits in Lock()
ProvisionedSetLockingWitness ==
    /\ trPC = "sending"
    /\ syncPC = "lock"
    /\ currentUsers # EmptyMap
    /\ panelUsers # EmptyMap

(***************************************************************************)
(* Properties of reportTraffic.                                            *)
(***************************************************************************)
\* C26 (order of a traffic report): while the report is being sent to the
\* panel the counters it reports are not reset yet: the engine still holds
\* at least the reported bytes for every reported user.
TrafficReportOrder ==
    trPC = "sending"
        => \A r \in trafficReport :
              /\ xrayStats[r.UserEmail].up >= r.UploadBytes
              /\ xrayStats[r.UserEmail].down >= r.DownloadBytes

\* C24: the activity cache is protected by the same readers-writer lock as
\* the provisioned set: every read of the cache happens while the lock is
\* held, and every insertion, update or deletion happens while the lock is
\* held in the mode that excludes all other accesses.
CacheUnderLock ==
    /\ cacheAccess.op = "read" => cacheAccess.lock \in {"read", "write"}
    /\ cacheAccess.op = "write" => cacheAccess.lock = "write"

\* C25: the private key never leaves the node: no request body sent to the
\* controller (heartbeat, traffic report, activity report; the two fetches
\* are GET requests without a body) has a field holding it; a heartbeat
\* carries the public key only, and carries it whenever a keypair is loaded.
PrivateKeyStaysLocal ==
    /\ hbPC = "done"
          => /\ DOMAIN heartbeat = {"Status", "CurrentUsers", "RealityPublicKey"}
             /\ heartbeat.RealityPublicKey = realityKeys.PublicKey
             /\ realityKeys # NoKeys
                   => heartbeat.RealityPublicKey
                         = ScalarBaseMult(DecodeString(realityKeys.PrivateKey).bytes)
    /\ \A r \in trafficReport : DOMAIN r = {"UserEmail", "UploadBytes", "DownloadBytes"}
    /\ \A r \in activities :
          DOMAIN r = {"Email", "LastSeen", "IsOnline", "DeviceCount", "DeviceIPs"}

PrivateKeyStaysLocalWitness ==
    /\ hbPC = "done"
    /\ realityKeys # NoKeys
    /\ heartbeat.RealityPublicKey # NoKeys.PublicKey
    /\ currentUsers # EmptyMap

\* C27: a failure of the initial reconciliation pass during Start is not
\* fatal: Start still launches the four loops and returns success, the
\* provisioned set stays empty (as long as no fetch has succeeded), and the
\* user-sync loop runs the pass again at its next tick.
InitialSyncFailureNotFatal ==
    /\ [][(startPC = "sync" /\ syncPC = "done" /\ syncErr)
             => /\ startPC' = "running" /\ ~startErr'
                /\ hbPC' = "idle" /\ syncPC' = "idle" /\ trPC' = "idle" /\ actPC' = "idle"
                /\ currentUsers' = EmptyMap]_vars
    /\ [](Launched /\ desiredChanged => currentUsers = EmptyMap)
    /\ [](startPC = "running" /\ desiredChanged /\ syncPC = "idle" => ENABLED SyncFetch)

InitialSyncFailureNotFatalWitness ==
    /\ startPC = "running"
    /\ desiredChanged
    /\ syncPC = "done"
    /\ syncErr
    /\ currentUsers = EmptyMap

\* C28: in building an activity report, the online-peer-address query is
\* issued only for identities the report marks online and never for one it
\* marks offline; an identity whose peer query failed is still in the
\* report, without addresses.
OnlinePeerQueries ==
    actPC = "done"
        => /\ \A e \in DOMAIN ipQueries :
                 \E r \in activities : r.Email = e /\ r.IsOnline
           /\ \A r \in activities :
                 ~r.IsOnline => r.Email \notin DOMAIN ipQueries /\ r.DeviceIPs = {}
           /\ \A e \in DOMAIN ipQueries :
                 ipQueries[e].err
                     => \E r \in activities :
                           r.Email = e /\ r.DeviceIPs = {} /\ r.DeviceCount = 0

OnlinePeerQueriesWitness ==
    /\ actPC = "done"
    /\ \E e \in DOMAIN ipQueries :
          ipQueries[e].err /\ \E r \in activities : r.Email = e /\ r.IsOnline

\* C29: the private-key file is written at most once in an agent's
\* lifetime, during the key load/create step of startup, and never after the
\* loops are running; when a valid key file exists at startup, it is not
\* written at all.
KeyFileWrittenAtMostOnce ==
    /\ [][keyFs' # keyFs => startPC = "created" /\ startPC' = "keys"]_vars
    /\ [](keyLoad.called => keyFs = keyLoad.fsAfter)
    /\ []((keyLoad.called /\ ~Damaged(keyLoad.fsBefore))
             => ~keyLoad.wrote /\ keyLoad.fsAfter = keyLoad.fsBefore)

KeyFileWrittenAtMostOnceWitness ==
    /\ startPC = "running"
    /\ hbPC = "done"
    /\ keyLoad.wrote
    /\ keyLoad.fsAfter # keyLoad.fsBefore

\* C30: during an activity tick, when the counter query for one identity
\* fails, that identity is skipped: its record is left exactly as it was
\* before the tick and no record is created for it, while every other
\* provisioned identity is still sampled in the same tick.
FailedQuerySkipsIdentity ==
    actPC = "tracked"
        => /\ \A e \in statsFailed :
                 IF e \in DOMAIN startCache
                    THEN e \in DOMAIN activityCache /\ activityCache[e] = startCache[e]
                    ELSE e \notin DOMAIN activityCache
           /\ \A e \in trackUsers \ statsFailed : e \in DOMAIN samples

(***************************************************************************)
(* Start and the heartbeats of an agent whose node record has Reality      *)
(* enabled, with a keypair stored in the panel or without one, over the    *)
(* states of the key path on disk.                                         *)
(***************************************************************************)
RealityNode ==
    NodeConfig("vless", 443, FALSE, "", "panel-in", 10086, TRUE, "example.com:443",
               "example.com", "0123abcd")

RealityNodes ==
    {RealityNode,
     [RealityNode EXCEPT !.RealityPrivateKey = NoKeys.PrivateKey,
                         !.RealityPublicKey = NoKeys.PublicKey]}

RealityInit == NewAgent(ActEmails, FALSE) /\ Created({MinimalFile}, RealityNodes, KeyFsStates)

RealityNext ==
    \/ StartStep
    \/ SyncStep
    \/ HeartbeatStep

RealitySpec == RealityInit /\ [][RealityNext]_vars

(***************************************************************************)
(* usersMutex among the four loops of a started agent whose engine relays  *)
(* traffic: every engine call and every controller call returns, so each   *)
(* step of syncUsers and of reportTraffic that can be taken is taken.      *)
(***************************************************************************)
LockInit == NewAgent(ActEmails, FALSE) /\ Running

LockNext ==
    \/ SyncStep
    \/ \E email \in ActEmails : Traffic(email)
    \/ HeartbeatStep
    \/ TrafficReportStep
    \/ ActivityStep

LockSpec ==
    LockInit /\ [][LockNext]_vars /\ WF_vars(SyncStep) /\ WF_vars(TrafficReportStep)

\* C31: traffic conservation: the bytes the engine counted for a provisioned
\* identity are never lost by the traffic-report loop: they are in a report
\* the panel accepted or still held in the engine counter.  So the bytes of
\* a report the panel did not accept are still held in the engine counters
\* when reportTraffic returns its error.
TrafficConserved ==
    (trPC = "done" /\ trErr)
        => \A r \in trafficReport :
              /\ xrayStats[r.UserEmail].up >= r.UploadBytes
              /\ xrayStats[r.UserEmail].down >= r.DownloadBytes

\* C32: an identity removed from the provisioned set is eventually no
\* longer reported online: once two minutes have passed since an activity
\* tick first found it unprovisioned (so at least two minutes since its
\* removal), no activity report marks it online.
RemovedGoesOffline ==
    actPC = "done"
        => \A r \in activities :
              (/\ r.Email \in DOMAIN absentSince
               /\ reportNow - absentSince[r.Email] >= OnlineThreshold)
                  => ~r.IsOnline

\* C33: activity detection is not defeated by the traffic-report loop: an
\* identity that transferred traffic since the previous activity tick, that
\* the previous ticks left a baseline for and whose counters this tick reads
\* without a failure, is marked active by this tick, whatever the
\* traffic-report loop did to its counters in between.
ActivityDetected ==
    actPC = "tracked"
        => \A e \in trafficSince.emails :
              (e \in trackUsers /\ e \in DOMAIN startCache /\ e \notin statsFailed)
                  => e \in activeUsers

\* C34: after a reconciliation pass with no failure, for every identifier
\* in the provisioned set the credential stored in the set and the one
\* pushed to the engine equal the credential the latest fetch returned for
\* it, also when the controller changed the credential of an identifier
\* that was already provisioned.
CredentialFollowsFetch ==
    (syncPC = "done" /\ ~syncErr /\ failedAdds = {} /\ failedRemoves = {})
        => \A e \in DOMAIN currentUsers :
              /\ e \in DOMAIN panelUsers
              /\ currentUsers[e].UUID = panelUsers[e].UUID
              /\ e \in DOMAIN xrayUsers
              /\ xrayUsers[e] = panelUsers[e].UUID

\* C35: after Stop has stopped the engine, no loop issues any further
\* engine call (add-identity, remove-identity, get-online-peers; the counter
\* calls are made at the start of an iteration only), also not from an
\* iteration that was in progress when Stop was called.
NoEngineCallAfterStop ==
    [][(cancelled /\ ~engineRunning /\ startPC = "stopping" /\ startPC' = "stopping")
          => /\ addCalls' = addCalls
             /\ removeCalls' = removeCalls
             /\ DOMAIN ipQueries' \subseteq DOMAIN ipQueries]_vars

\* C36: at most one reconciliation pass is in progress: the loops are launched
\* only by Start whose initial syncUsers has returned, and a pass (whose first
\* statement is the fetch) starts only when no pass is in progress
OnePassAtATime ==
    [][/\ (hbPC = "none" /\ hbPC' # "none") => (startPC = "sync" /\ syncPC = "done")
       /\ (fetchOutcome' # fetchOutcome /\ fetchOutcome' # "none")
             => (syncPC = "idle" /\ fetchOutcome = "none")]_vars

\* the user-sync loop is inside a pass of its own after the initial pass
OnePassAtATimeWitness ==
    /\ startPC = "running"
    /\ syncPC \in {"add", "remove"}
    /\ Len(startTrace) > 0
    /\ startTrace[Len(startTrace)] = "loops"

\* C37: the identity count of a heartbeat is the size of currentUsers before
\* or after a whole pass of syncUsers: sendHeartbeat reads it in a step where
\* no pass is between its Lock() and its return, and sends what it read
HeartbeatCountsWholePasses ==
    [][(hbPC = "idle" /\ hbPC' = "done")
          => /\ syncPC \notin {"add", "remove"}
             /\ heartbeat'.CurrentUsers = Cardinality(DOMAIN currentUsers)]_vars

\* a heartbeat taken between two passes, with somebody provisioned
HeartbeatCountsWholePassesWitness ==
    /\ hbPC = "done"
    /\ syncPC = "idle"
    /\ startPC = "running"
    /\ heartbeat.CurrentUsers = Cardinality(DOMAIN currentUsers)
    /\ heartbeat.CurrentUsers > 0

\* C38: usersMutex never deadlocks: syncUsers gets the write lock only when
\* nobody holds the mutex, a reader enters only when no writer holds it or
\* waits for it, a task that has returned holds nothing, and, all calls
\* returning, a waiting syncUsers gets the write lock and the mutex becomes
\* free for the waiting readers
NoLockDeadlock ==
    /\ [](~(WriteLocked /\ ReadLocked))
    /\ []((syncPC \in {"idle", "done", "exited"} => ~WriteLocked)
            /\ (trPC \in {"none", "idle", "done", "exited"} => ~ReadLocked))
    /\ [][(syncPC = "lock" /\ syncPC' # "lock") => (~ReadLocked /\ ~WriteLocked)]_vars
    /\ [][(\/ hbPC = "idle" /\ hbPC' = "done"
           \/ trPC = "idle" /\ trPC' # "idle"
           \/ actPC = "idle" /\ actPC' # "idle") => CanRLock]_vars
    /\ (syncPC = "lock") ~> (syncPC \in {"add", "remove", "done"})
    /\ (~CanRLock) ~> CanRLock

\* syncUsers waits in Lock() while reportTraffic holds the read lock
NoLockDeadlockWitness ==
    /\ syncPC = "lock"
    /\ ReadLocked
    /\ hbPC = "idle"
    /\ actPC = "idle"

\* C39: once Start has resolved a node record with Reality enabled, the
\* private key of cfg.Xray, from which the engine is configured, is the one of
\* the local keypair, the one in the key file, when initRealityKeys delivered
\* one, whatever the record holds, and the record's key only when it
\* delivered none; Start does not
\* fail at the key step, and a heartbeat sent without a local keypair has an
\* empty public key
KeySource ==
    /\ (/\ startPC \in {"resolved", "engine", "sync", "running"}
        /\ fetchedConfig.ok
        /\ fetchedConfig.node.RealityEnabled)
          => /\ cfg.RealityEnabled
             /\ realityKeys # NoKeys
                   => /\ cfg.RealityPrivateKey = realityKeys.PrivateKey
                      /\ realityKeys.PrivateKey = keyFs.content
             /\ realityKeys = NoKeys
                   => cfg.RealityPrivateKey = fetchedConfig.node.RealityPrivateKey
    /\ (startPC = "failed" /\ realityKeys = NoKeys) => Len(startTrace) >= 2
    /\ (hbPC = "done" /\ realityKeys = NoKeys)
          => heartbeat.RealityPublicKey = NoKeys.PublicKey

\* the key file could not be created, the engine runs with the keypair of the
\* panel, and a heartbeat went out
KeySourceWitness ==
    /\ hbPC = "done"
    /\ realityKeys = NoKeys
    /\ engineRunning
    /\ cfg.RealityEnabled
    /\ cfg.RealityPrivateKey = PanelKeys.PrivateKey
    /\ heartbeat.RealityPublicKey = NoKeys.PublicKey


====
